---- MODULE Spec2Model ----
(***************************************************************************)
(* A model of the data dashboard backend: the transformation pipeline of   *)
(* services/data_processor.py, the chart compatibility engine of           *)
(* services/visualization_service.py and the request handlers of           *)
(* routers/processing.py that drive them over the in-memory stores of      *)
(* services/storage_service.py.                                            *)
(*                                                                         *)
(* Text (column names, cell text, filter criteria) is a sequence of        *)
(* one-character strings, so that the substring tests, split() and strip() *)
(* of the filter parser are computed and not assumed.  Numbers are exact   *)
(* rationals n/d.  A DataFrame is a record of its column labels, their     *)
(* dtypes, its row index labels and its rows.  pandas semantics are those  *)
(* of the pandas 1.x / 2.x line the code is written for, in which          *)
(* df[col].fillna(..., inplace=True) writes through to df.                 *)
(***************************************************************************)
EXTENDS Integers, Sequences, FiniteSets, TLC

VARIABLES
    frame,           \* the DataFrame object a direct caller of process_data holds
    processing_log,  \* data_processor.processing_log, the one process-wide list
    data_store,      \* storage_service._data_store: session id -> metadata
    files,           \* the data directory: path -> stored DataFrame
    last,            \* the last request handled and what it returned
    validation,      \* the last validate_chart_compatibility request and result
    steps_left,      \* how much more work the environment submits
    session_log,     \* history: session id -> the log its last apply request returned
    chart_store,     \* storage_service._chart_store: chart id -> chart configuration
    auth             \* routers/auth.py: _users, _verification_tokens, _reset_tokens,
                     \* _sessions, and the clock and token source they are filled from

vars ==
    <<frame, processing_log, data_store, files, last, validation, steps_left, session_log,
      chart_store, auth>>

-----------------------------------------------------------------------------
(* Bounds of the model.                                                    *)

\* Work over one behaviour: a call or request costs one unit, and one more
\* for each recommendation item (dropped name, cleaning step, feature spec,
\* filter criterion) it carries.
MaxSteps == 3
\* y-axis column names in one chart request.
MaxY == 3
\* Uploads over one behaviour.
MaxSessions == 2
\* Requests to the service over one behaviour.
MaxRequests == 4
\* Advances of the clock of the account service over one behaviour.
MaxTicks == 1
\* Tokens the account service draws from secrets over one behaviour.
MaxTokens == 2

-----------------------------------------------------------------------------
(* Text.                                                                   *)

Digits == <<"0", "1", "2", "3", "4", "5", "6", "7", "8", "9">>

IsSpace(ch) == ch = " "

RECURSIVE lstrip(_)
lstrip(s) == IF s # <<>> /\ IsSpace(Head(s)) THEN lstrip(Tail(s)) ELSE s

RECURSIVE rstrip(_)
rstrip(s) ==
    IF s # <<>> /\ IsSpace(s[Len(s)]) THEN rstrip(SubSeq(s, 1, Len(s) - 1)) ELSE s

\* str.strip()
strip(s) == rstrip(lstrip(s))

IsQuote(ch) == ch = "\"" \/ ch = "'"

RECURSIVE lstripq(_)
lstripq(s) == IF s # <<>> /\ IsQuote(Head(s)) THEN lstripq(Tail(s)) ELSE s

RECURSIVE rstripq(_)
rstripq(s) ==
    IF s # <<>> /\ IsQuote(s[Len(s)]) THEN rstripq(SubSeq(s, 1, Len(s) - 1)) ELSE s

\* str.strip('"\'')
strip_quotes(s) == rstripq(lstripq(s))

\* sub in s
Contains(s, sub) ==
    \E i \in 1..(Len(s) - Len(sub) + 1) : SubSeq(s, i, i + Len(sub) - 1) = sub

\* the first position of sub in s, 0 when there is none
Find(s, sub) ==
    IF Contains(s, sub)
    THEN CHOOSE i \in 1..(Len(s) - Len(sub) + 1) :
            /\ SubSeq(s, i, i + Len(sub) - 1) = sub
            /\ \A j \in 1..(i - 1) : SubSeq(s, j, j + Len(sub) - 1) # sub
    ELSE 0

\* s.split(sep): the parts of s between the occurrences of sep, left to right
RECURSIVE split(_, _)
split(s, sep) ==
    LET i == Find(s, sep)
    IN IF i = 0 THEN <<s>>
       ELSE <<SubSeq(s, 1, i - 1)>> \o split(SubSeq(s, i + Len(sep), Len(s)), sep)

DigitValue(ch) == CHOOSE k \in 0..9 : Digits[k + 1] = ch

IsDigit(ch) == \E k \in 1..10 : Digits[k] = ch

RECURSIVE DigitsValue(_)
DigitsValue(s) ==
    IF s = <<>> THEN 0
    ELSE 10 * DigitsValue(SubSeq(s, 1, Len(s) - 1)) + DigitValue(s[Len(s)])

RECURSIVE Pow10(_)
Pow10(k) == IF k = 0 THEN 1 ELSE 10 * Pow10(k - 1)

RECURSIVE NatText(_)
NatText(k) == IF k < 10 THEN <<Digits[k + 1]>> ELSE NatText(k \div 10) \o <<Digits[(k % 10) + 1]>>

-----------------------------------------------------------------------------
(* Numbers: exact rationals [n, d] with d > 0, in lowest terms.            *)

Abs(x) == IF x < 0 THEN -x ELSE x

RECURSIVE GCD(_, _)
GCD(a, b) == IF b = 0 THEN a ELSE GCD(b, a % b)

Rat(n, d) ==
    LET s == IF d < 0 THEN -1 ELSE 1
        g == GCD(Abs(n), Abs(d))
    IN [n |-> (s * n) \div g, d |-> (s * d) \div g]

RInt(k) == [n |-> k, d |-> 1]
RAdd(x, y) == Rat(x.n * y.d + y.n * x.d, x.d * y.d)
RSub(x, y) == Rat(x.n * y.d - y.n * x.d, x.d * y.d)
RMul(x, y) == Rat(x.n * y.n, x.d * y.d)
RDivInt(x, k) == Rat(x.n, x.d * k)
RLt(x, y) == x.n * y.d < y.n * x.d
RLe(x, y) == x.n * y.d <= y.n * x.d
RIsInt(x) == x.d = 1

RECURSIVE RSum(_)
RSum(xs) == IF xs = <<>> THEN RInt(0) ELSE RAdd(Head(xs), RSum(Tail(xs)))

\* float(text): sign, digits and at most one decimal point; [ok, val]
ParseFloat(s) ==
    LET neg  == s # <<>> /\ Head(s) = "-"
        body == IF s # <<>> /\ (Head(s) = "-" \/ Head(s) = "+") THEN Tail(s) ELSE s
        dot  == Find(body, <<".">>)
        ip   == IF dot = 0 THEN body ELSE SubSeq(body, 1, dot - 1)
        fp   == IF dot = 0 THEN <<>> ELSE SubSeq(body, dot + 1, Len(body))
        good == /\ \A i \in 1..Len(ip) : IsDigit(ip[i])
                /\ \A i \in 1..Len(fp) : IsDigit(fp[i])
                /\ Len(ip) + Len(fp) > 0
        mag  == Rat(DigitsValue(ip \o fp), Pow10(Len(fp)))
    IN IF good
       THEN [ok |-> TRUE, val |-> IF neg THEN Rat(-mag.n, mag.d) ELSE mag]
       ELSE [ok |-> FALSE, val |-> RInt(0)]

-----------------------------------------------------------------------------
(* Cells and DataFrames.                                                   *)

\* A cell: t is "null" (NaN / NaT), "num" (n/d), "str" (text s),
\* "dt" (a date, n = yyyymmdd) or "ivl" (the n-th interval of a pd.cut).
Null     == [t |-> "null", n |-> 0, d |-> 1, s |-> <<>>]
Num(r)   == [t |-> "num", n |-> r.n, d |-> r.d, s |-> <<>>]
I(k)     == [t |-> "num", n |-> k, d |-> 1, s |-> <<>>]
Str(s)   == [t |-> "str", n |-> 0, d |-> 1, s |-> s]
Date(k)  == [t |-> "dt", n |-> k, d |-> 1, s |-> <<>>]
Ivl(k)   == [t |-> "ivl", n |-> k, d |-> 1, s |-> <<>>]
Val(c)   == [n |-> c.n, d |-> c.d]
IsNull(c) == c.t = "null"

\* A DataFrame: column labels, the dtype of each column, the index label of
\* each row, and the rows (each a sequence of cells, one per column).
DataFrame(columns, dtypes, index, data) ==
    [columns |-> columns, dtypes |-> dtypes, index |-> index, data |-> data]

NRows(df) == Len(df.data)
NCols(df) == Len(df.columns)

\* c in df.columns
HasColumn(df, c) == \E i \in 1..NCols(df) : df.columns[i] = c

ColPos(df, c) == CHOOSE i \in 1..NCols(df) : df.columns[i] = c

\* df[c] as the sequence of its cells, and its dtype
Column(df, c) == [r \in 1..NRows(df) |-> df.data[r][ColPos(df, c)]]
DtypeOf(df, c) == df.dtypes[ColPos(df, c)]

\* pd.api.types.is_numeric_dtype
is_numeric_dtype(dt) == dt \in {"int64", "float64"}
\* pd.api.types.is_datetime64_any_dtype
is_datetime64_any_dtype(dt) == dt = "datetime64[ns]"

\* df[c] = cells (dtype dt): replaces the column, or appends it when new
SetColumn(df, c, dt, cells) ==
    IF HasColumn(df, c)
    THEN LET p == ColPos(df, c)
         IN [df EXCEPT !.dtypes[p] = dt,
                       !.data = [r \in 1..NRows(df) |-> [df.data[r] EXCEPT ![p] = cells[r]]]]
    ELSE [df EXCEPT !.columns = Append(df.columns, c),
                    !.dtypes = Append(df.dtypes, dt),
                    !.data = [r \in 1..NRows(df) |-> Append(df.data[r], cells[r])]]

RECURSIVE KeepPositions(_, _)
KeepPositions(seq, keep) ==
    IF seq = <<>> THEN <<>>
    ELSE (IF keep[1] THEN <<Head(seq)>> ELSE <<>>)
         \o KeepPositions(Tail(seq), Tail(keep))

\* a variant of df[mask] that numbers the kept rows anew
SelectRowsRenumbered(df, mask) ==
    [df EXCEPT !.index = [k \in 1..Len(KeepPositions(df.index, mask)) |-> df.index[k]],
               !.data = KeepPositions(df.data, mask)]

\* df[mask]: the rows whose mask is TRUE, with their index labels
SelectRows(df, mask) ==
    [df EXCEPT !.index = KeepPositions(df.index, mask),
               !.data = KeepPositions(df.data, mask)]

\* df.drop(columns=names): names are all present
DropColumns(df, names) ==
    LET keep == [i \in 1..NCols(df) |-> \A k \in 1..Len(names) : names[k] # df.columns[i]]
    IN [df EXCEPT !.columns = KeepPositions(df.columns, keep),
                  !.dtypes = KeepPositions(df.dtypes, keep),
                  !.data = [r \in 1..NRows(df) |-> KeepPositions(df.data[r], keep)]]

NonNull(cells) == SelectSeq(cells, LAMBDA c : ~IsNull(c))

-----------------------------------------------------------------------------
(* Conversions of cells.                                                   *)

Two(k) == IF k < 10 THEN <<"0">> \o NatText(k) ELSE NatText(k)

\* the fractional digits of r/d (0 <= r < d), cut after k digits
RECURSIVE FracDigits(_, _, _)
FracDigits(r, d, k) ==
    IF r = 0 \/ k = 0 THEN <<>>
    ELSE <<Digits[((10 * r) \div d) + 1]>> \o FracDigits((10 * r) % d, d, k - 1)

\* str(x) of an int64 / a float64 value (at most 16 fractional digits)
IntText(x) == (IF x.n < 0 THEN <<"-">> ELSE <<>>) \o NatText(Abs(x.n))
FloatText(x) ==
    LET a == Abs(x.n)
    IN (IF x.n < 0 THEN <<"-">> ELSE <<>>) \o NatText(a \div x.d) \o <<".">>
       \o (IF a % x.d = 0 THEN <<"0">> ELSE FracDigits(a % x.d, x.d, 16))

\* Series.astype(str), one cell of a column of dtype dt
CellAsStr(c, dt) ==
    CASE c.t = "str" -> c
      [] c.t = "null" -> Str(IF dt = "datetime64[ns]" THEN <<"N", "a", "T">> ELSE <<"n", "a", "n">>)
      [] c.t = "num" -> Str(IF dt = "int64" THEN IntText(Val(c)) ELSE FloatText(Val(c)))
      [] c.t = "dt" -> Str(NatText(c.n \div 10000) \o <<"-">> \o Two((c.n \div 100) % 100)
                           \o <<"-">> \o Two(c.n % 100))

DaysIn(y, m) ==
    CASE m \in {4, 6, 9, 11} -> 30
      [] m = 2 -> (IF y % 4 = 0 /\ (y % 100 # 0 \/ y % 400 = 0) THEN 29 ELSE 28)
      [] OTHER -> 31

\* An ISO date YYYY-MM-DD; [ok, val]
ParseDate(s) ==
    IF /\ Len(s) = 10
       /\ s[5] = "-" /\ s[8] = "-"
       /\ \A i \in {1, 2, 3, 4, 6, 7, 9, 10} : IsDigit(s[i])
    THEN LET y == DigitsValue(SubSeq(s, 1, 4))
             m == DigitsValue(SubSeq(s, 6, 7))
             dd == DigitsValue(SubSeq(s, 9, 10))
         IN IF m \in 1..12 /\ dd \in 1..DaysIn(y, m)
            THEN [ok |-> TRUE, val |-> y * 10000 + m * 100 + dd]
            ELSE [ok |-> FALSE, val |-> 0]
    ELSE [ok |-> FALSE, val |-> 0]

\* pd.to_datetime(series, errors='coerce'), one cell: text is parsed (what does
\* not parse becomes NaT), a number counts nanoseconds from 1970-01-01
CellToDatetime(c) ==
    CASE c.t = "null" -> Null
      [] c.t = "dt" -> c
      [] c.t = "str" -> (IF ParseDate(c.s).ok THEN Date(ParseDate(c.s).val) ELSE Null)
      [] c.t = "num" -> (IF c.n < 0 THEN Date(19691231) ELSE Date(19700101))

\* pd.to_numeric(series, errors='coerce'), one cell
CellToNumeric(c) ==
    CASE c.t = "null" -> Null
      [] c.t = "num" -> c
      [] c.t = "str" -> (IF ParseFloat(strip(c.s)).ok THEN Num(ParseFloat(strip(c.s)).val) ELSE Null)

\* the dtype pd.to_numeric gives a column of text: int64 when every cell is
\* an integer literal, float64 otherwise
ParsedDtype(cells) ==
    IF \A i \in 1..Len(cells) :
          /\ cells[i].t = "str"
          /\ ParseFloat(strip(cells[i].s)).ok
          /\ ~Contains(cells[i].s, <<".">>)
    THEN "int64" ELSE "float64"

-----------------------------------------------------------------------------
(* Column statistics.                                                      *)

\* the printable characters text is made of, in code-point order
Alphabet ==
    <<" ", "!", "\"", "#", "$", "%", "&", "'", "(", ")", "*", "+", ",", "-", ".", "/",
      "0", "1", "2", "3", "4", "5", "6", "7", "8", "9", ":", ";", "<", "=", ">", "?",
      "@", "A", "B", "C", "D", "E", "F", "G", "H", "I", "J", "K", "L", "M", "N", "O",
      "P", "Q", "R", "S", "T", "U", "V", "W", "X", "Y", "Z", "[", "]", "^", "_",
      "a", "b", "c", "d", "e", "f", "g", "h", "i", "j", "k", "l", "m", "n", "o",
      "p", "q", "r", "s", "t", "u", "v", "w", "x", "y", "z", "{", "|", "}", "~">>

Ord(ch) == CHOOSE k \in 1..Len(Alphabet) : Alphabet[k] = ch

RECURSIVE TextLess(_, _)
TextLess(a, b) ==
    CASE b = <<>> -> FALSE
      [] a = <<>> -> TRUE
      [] Head(a) = Head(b) -> TextLess(Tail(a), Tail(b))
      [] OTHER -> Ord(Head(a)) < Ord(Head(b))

\* the order pandas sorts the values of one column in
CellLess(a, b) ==
    CASE a.t = "num" /\ b.t = "num" -> RLt(Val(a), Val(b))
      [] a.t = "str" /\ b.t = "str" -> TextLess(a.s, b.s)
      [] a.t = "dt" /\ b.t = "dt" -> a.n < b.n

RECURSIVE Insert(_, _)
Insert(x, sorted) ==
    IF sorted = <<>> THEN <<x>>
    ELSE IF RLe(x, Head(sorted)) THEN <<x>> \o sorted
    ELSE <<Head(sorted)>> \o Insert(x, Tail(sorted))

RECURSIVE Sorted(_)
Sorted(xs) == IF xs = <<>> THEN <<>> ELSE Insert(Head(xs), Sorted(Tail(xs)))

\* the numbers of a column, nulls skipped
Values(cells) == [i \in 1..Len(NonNull(cells)) |-> Val(NonNull(cells)[i])]

\* Series.mean(): a null cell (NaN) when there is no value
Mean(cells) ==
    LET xs == Values(cells)
    IN IF xs = <<>> THEN Null ELSE Num(RDivInt(RSum(xs), Len(xs)))

\* Series.quantile(q) for q = num/den, by linear interpolation
Quantile(cells, num, den) ==
    LET xs == Sorted(Values(cells))
        k  == Len(xs)
        lo == ((k - 1) * num) \div den
        fr == Rat(((k - 1) * num) % den, den)
    IN IF k = 0 THEN Null
       ELSE IF lo + 1 >= k THEN Num(xs[k])
       ELSE Num(RAdd(xs[lo + 1], RMul(fr, RSub(xs[lo + 2], xs[lo + 1]))))

\* Series.median()
Median(cells) == Quantile(cells, 1, 2)

\* Series.mode()[0]: the most frequent value, the smallest of them on a tie
Count(cells, c) == Cardinality({i \in 1..Len(cells) : cells[i] = c})
ModeValue(cells) ==
    LET nn == NonNull(cells)
        best == {i \in 1..Len(nn) : \A j \in 1..Len(nn) : Count(nn, nn[j]) <= Count(nn, nn[i])}
    IN nn[CHOOSE i \in best : \A j \in best : ~CellLess(nn[j], nn[i])]

\* the sample variance (ddof = 1) of a column with at least two values
Variance(cells) ==
    LET xs == Values(cells)
        m  == Val(Mean(cells))
        sq == [i \in 1..Len(xs) |-> RMul(RSub(xs[i], m), RSub(xs[i], m))]
    IN RDivInt(RSum(sq), Len(xs) - 1)

\* Series.fillna(method='ffill')
RECURSIVE ForwardFill(_, _)
ForwardFill(cells, prev) ==
    IF cells = <<>> THEN <<>>
    ELSE LET c == IF IsNull(Head(cells)) THEN prev ELSE Head(cells)
         IN <<c>> \o ForwardFill(Tail(cells), c)

\* the dtype of a column of dtype dt after its nulls were filled with cell v
FilledDtype(dt, v) ==
    CASE v.t = "num" /\ is_numeric_dtype(dt) -> (IF dt = "int64" /\ v.d = 1 THEN "int64" ELSE "float64")
      [] v.t = "dt" /\ dt = "datetime64[ns]" -> dt
      [] OTHER -> "object"

\* Series.fillna(v): filling with NaN, or a column without nulls, changes nothing
FillNa(cells, dt, v) ==
    IF IsNull(v) \/ \A i \in 1..Len(cells) : ~IsNull(cells[i])
    THEN [cells |-> cells, dtype |-> dt]
    ELSE [cells |-> [i \in 1..Len(cells) |-> IF IsNull(cells[i]) THEN v ELSE cells[i]],
          dtype |-> FilledDtype(dt, v)]

-----------------------------------------------------------------------------
(* The recommendation document and the processing log.                     *)

\* a dict key that is not given
Absent == "<absent>"
AbsentCell == [t |-> "absent", n |-> 0, d |-> 1, s |-> <<>>]

\* step['parameters']: none is TRUE when the value is None
Params(method, value, threshold, target_type) ==
    [none |-> FALSE, method |-> method, value |-> value,
     threshold |-> threshold, target_type |-> target_type]
NoParams == Params(Absent, AbsentCell, AbsentCell, Absent)
NoneParams == [NoParams EXCEPT !.none = TRUE]

CleaningStep(column_name, action, parameters) ==
    [column_name |-> column_name, action |-> action, parameters |-> parameters]

FeatureSpec(new_column_name, operation, source_columns) ==
    [new_column_name |-> new_column_name, operation |-> operation,
     source_columns |-> source_columns]

Recommendation(drops, cleaning, features, criteria) ==
    [columns_to_drop |-> drops, cleaning_steps |-> cleaning,
     feature_engineering |-> features, filtering_criteria |-> criteria]

\* One line of the processing log: the message and the values formatted
\* into it (a column name or criterion, a method or action, the text of the
\* exception, a list of names, a shape).
LogEntry(msg, name, arg, err, cols, rows, ncols) ==
    [msg |-> msg, name |-> name, arg |-> arg, err |-> err, cols |-> cols,
     rows |-> rows, ncols |-> ncols]
Line(msg, name, arg) == LogEntry(msg, name, arg, "", <<>>, 0, 0)
ErrorLine(msg, name, arg, err) == LogEntry(msg, name, arg, err, <<>>, 0, 0)

-----------------------------------------------------------------------------
(* The state of one pipeline function while it runs: its local df, whether *)
(* df still is the object its caller passed in (alias), the value of that  *)
(* object (arg), and self.processing_log.                                  *)

Frame(df, log) == [df |-> df, alias |-> TRUE, arg |-> df, log |-> log]

\* a variant of Copy that takes no copy: df stays the caller's object
NoCopy(st) == st

\* df = df.copy()
Copy(st) == [st EXCEPT !.alias = FALSE]

\* an operation that changes the object df names (inplace=True, df[c] = ...)
InPlace(st, df) == [st EXCEPT !.df = df, !.arg = IF st.alias THEN df ELSE st.arg]

\* df = <a new DataFrame>
Rebind(st, df) == [st EXCEPT !.df = df, !.alias = FALSE]

\* self.processing_log.append(entry)
Log(st, entry) == [st EXCEPT !.log = Append(st.log, entry)]

\* the outcome of a try body: the state it reached, and the exception raised
Done(st) == [raised |-> FALSE, err |-> "", st |-> st]
Raise(st, err) == [raised |-> TRUE, err |-> err, st |-> st]

-----------------------------------------------------------------------------
(* DataProcessor.apply_cleaning.                                           *)

\* df[column].fillna(v, inplace=True)
FillColumn(st, column, v) ==
    LET f == FillNa(Column(st.df, column), DtypeOf(st.df, column), v)
    IN InPlace(st, SetColumn(st.df, column, f.dtype, f.cells))

fill_nulls(st, column, params) ==
    LET method == IF params.method = Absent THEN "mean" ELSE params.method
        cells  == Column(st.df, column)
        dt     == DtypeOf(st.df, column)
        filled ==
            CASE method = "mean" /\ is_numeric_dtype(dt) ->
                    Done(FillColumn(st, column, Mean(cells)))
              [] method = "median" /\ is_numeric_dtype(dt) ->
                    Done(FillColumn(st, column, Median(cells)))
              [] method = "mode" ->
                    IF NonNull(cells) = <<>> THEN Raise(st, "KeyError")
                    ELSE Done(FillColumn(st, column, ModeValue(cells)))
              [] method = "forward_fill" ->
                    Done(InPlace(st, SetColumn(st.df, column, dt, ForwardFill(cells, Null))))
              [] OTHER ->
                    IF params.value = Null THEN Raise(st, "ValueError")
                    ELSE Done(FillColumn(st, column,
                                IF params.value = AbsentCell
                                THEN Str(<<"U", "n", "k", "n", "o", "w", "n">>)
                                ELSE params.value))
    IN IF params.none THEN Raise(st, "AttributeError")
       ELSE IF ~HasColumn(st.df, column) THEN Raise(st, "KeyError")
       ELSE IF filled.raised THEN filled
       ELSE Done(Log(filled.st, Line("Filled nulls", column, method)))

\* (df[column] >= lower_bound) & (df[column] <= upper_bound)
IqrMask(cells) ==
    LET q1 == Quantile(cells, 1, 4)
        q3 == Quantile(cells, 3, 4)
        iqr == RSub(Val(q3), Val(q1))
        lower == RSub(Val(q1), RMul(Rat(3, 2), iqr))
        upper == RAdd(Val(q3), RMul(Rat(3, 2), iqr))
    IN [i \in 1..Len(cells) |->
          /\ ~IsNull(cells[i])
          /\ ~IsNull(q1)
          /\ RLe(lower, Val(cells[i]))
          /\ RLe(Val(cells[i]), upper)]

\* np.abs((df[column] - mean) / std) < threshold: the quotient is NaN, and the
\* comparison false, for a null cell, for fewer than two values (std is NaN)
\* and for a zero std
ZscoreMask(cells, threshold) ==
    LET k == Len(Values(cells))
        m == Val(Mean(cells))
    IN [i \in 1..Len(cells) |->
          /\ ~IsNull(cells[i])
          /\ k >= 2
          /\ Variance(cells).n # 0
          /\ RLt(RInt(0), threshold)
          /\ LET dev == RSub(Val(cells[i]), m)
             IN RLt(RMul(dev, dev), RMul(RMul(threshold, threshold), Variance(cells)))]

remove_outliers(st, column, params) ==
    LET method == IF params.method = Absent THEN "iqr" ELSE params.method
        cells  == Column(st.df, column)
        numeric == is_numeric_dtype(DtypeOf(st.df, column))
        threshold == IF params.threshold = AbsentCell THEN RInt(3) ELSE Val(params.threshold)
    IN IF params.none THEN Raise(st, "AttributeError")
       ELSE IF method \notin {"iqr", "zscore"} THEN Done(st)
       ELSE IF ~HasColumn(st.df, column) THEN Raise(st, "KeyError")
       ELSE IF method = "iqr" /\ numeric
            THEN Done(Log(Rebind(st, SelectRows(st.df, IqrMask(cells))),
                          Line("Removed outliers", column, "IQR")))
       ELSE IF method = "zscore" /\ numeric
            THEN IF params.threshold.t \notin {"absent", "num"} THEN Raise(st, "TypeError")
                 ELSE Done(Log(Rebind(st, SelectRows(st.df, ZscoreMask(cells, threshold))),
                               Line("Removed outliers", column, "Z-score")))
       ELSE Done(st)

convert_type(st, column, params) ==
    LET target_type == params.target_type
        cells == Column(st.df, column)
        dt    == DtypeOf(st.df, column)
        n     == Len(cells)
    IN IF params.none THEN Raise(st, "AttributeError")
       ELSE IF target_type \notin {"datetime", "numeric", "string"} THEN Done(st)
       ELSE IF ~HasColumn(st.df, column) THEN Raise(st, "KeyError")
       ELSE CASE target_type = "datetime" ->
                   Done(Log(InPlace(st, SetColumn(st.df, column, "datetime64[ns]",
                                        [i \in 1..n |-> CellToDatetime(cells[i])])),
                            Line("Converted", column, "datetime")))
              [] target_type = "numeric" ->
                   Done(Log(InPlace(st, SetColumn(st.df, column,
                                        IF is_numeric_dtype(dt) THEN dt ELSE ParsedDtype(cells),
                                        [i \in 1..n |-> CellToNumeric(cells[i])])),
                            Line("Converted", column, "numeric")))
              [] target_type = "string" ->
                   Done(Log(InPlace(st, SetColumn(st.df, column, "object",
                                        [i \in 1..n |-> CellAsStr(cells[i], dt)])),
                            Line("Converted", column, "string")))

drop_column(st, column) ==
    IF HasColumn(st.df, column)
    THEN Done(Log(InPlace(st, DropColumns(st.df, <<column>>)),
                  Line("Dropped column", column, "")))
    ELSE Done(st)

drop_nulls(st, column) ==
    IF ~HasColumn(st.df, column) THEN Raise(st, "KeyError")
    ELSE LET cells == Column(st.df, column)
         IN Done(Log(InPlace(st, SelectRows(st.df, [i \in 1..Len(cells) |-> ~IsNull(cells[i])])),
                     Line("Dropped rows with nulls", column, "")))

\* the try body of one cleaning step
CleaningBody(st, step) ==
    CASE step.action = "fill_nulls" -> fill_nulls(st, step.column_name, step.parameters)
      [] step.action = "remove_outliers" -> remove_outliers(st, step.column_name, step.parameters)
      [] step.action = "convert_type" -> convert_type(st, step.column_name, step.parameters)
      [] step.action = "drop_column" -> drop_column(st, step.column_name)
      [] step.action = "drop_nulls" -> drop_nulls(st, step.column_name)
      [] OTHER -> Done(st)

\* the except clause: r is the outcome of the try body
CleaningExcept(r, step) ==
    IF r.raised
    THEN Log(r.st, ErrorLine("Error in", step.column_name, step.action, r.err))
    ELSE r.st

\* one iteration of the loop
CleaningIteration(st, step) == CleaningExcept(CleaningBody(st, step), step)

\* a variant of CleaningLoop that leaves the loop at the first step that raises
RECURSIVE CleaningLoopUntilError(_, _)
CleaningLoopUntilError(st, steps) ==
    IF steps = <<>> THEN st
    ELSE IF CleaningBody(st, Head(steps)).raised THEN CleaningIteration(st, Head(steps))
    ELSE CleaningLoopUntilError(CleaningIteration(st, Head(steps)), Tail(steps))

RECURSIVE CleaningLoop(_, _)
CleaningLoop(st, steps) ==
    IF steps = <<>> THEN st
    ELSE CleaningLoop(CleaningIteration(st, Head(steps)), Tail(steps))

apply_cleaning(st, cleaning_steps) == CleaningLoop(Copy(st), cleaning_steps)

-----------------------------------------------------------------------------
(* DataProcessor.apply_feature_engineering.                                *)

AnyNull(cells) == \E i \in 1..Len(cells) : IsNull(cells[i])

\* pd.to_datetime(df[src], errors='coerce').dt.<part>: div and mod pick the
\* part out of yyyymmdd
DatePart(st, new_col, src, div, mod, part) ==
    IF ~HasColumn(st.df, src) THEN Raise(st, "KeyError")
    ELSE LET cells == Column(st.df, src)
             out == [i \in 1..Len(cells) |->
                        LET c == CellToDatetime(cells[i])
                        IN IF IsNull(c) THEN Null ELSE I((c.n \div div) % mod)]
         IN Done(Log(InPlace(st, SetColumn(st.df, new_col,
                                  IF AnyNull(out) THEN "float64" ELSE "int64", out)),
                     LogEntry("Created", new_col, part, "", <<src>>, 0, 0)))

RECURSIVE JoinText(_)
JoinText(parts) ==
    IF Len(parts) = 1 THEN parts[1]
    ELSE parts[1] \o <<" ">> \o JoinText(Tail(parts))

\* df[source_cols].astype(str).agg(' '.join, axis=1)
concatenate(st, new_col, source_cols) ==
    IF \E k \in 1..Len(source_cols) : ~HasColumn(st.df, source_cols[k])
    THEN Raise(st, "KeyError")
    ELSE LET out == [r \in 1..NRows(st.df) |->
                       Str(JoinText([k \in 1..Len(source_cols) |->
                              CellAsStr(Column(st.df, source_cols[k])[r],
                                        DtypeOf(st.df, source_cols[k])).s]))]
         IN Done(Log(InPlace(st, SetColumn(st.df, new_col, "object", out)),
                     LogEntry("Created", new_col, "concatenate", "", source_cols, 0, 0)))

\* the cells of row r in the columns named, nulls skipped
RowValues(df, r, names) ==
    NonNull([k \in 1..Len(names) |-> Column(df, names[k])[r]])

\* df[source_cols].sum(axis=1) and .mean(axis=1) of numeric columns: NaN is
\* skipped, a row of NaN alone sums to 0 and averages to NaN
row_aggregate(st, new_col, source_cols, operation) ==
    IF \E k \in 1..Len(source_cols) : ~HasColumn(st.df, source_cols[k])
    THEN Raise(st, "KeyError")
    ELSE CASE \A k \in 1..Len(source_cols) : is_numeric_dtype(DtypeOf(st.df, source_cols[k])) ->
           LET ints == \A k \in 1..Len(source_cols) : DtypeOf(st.df, source_cols[k]) = "int64"
               out == [r \in 1..NRows(st.df) |->
                         IF operation = "sum"
                         THEN Num(RSum(Values(RowValues(st.df, r, source_cols))))
                         ELSE Mean(RowValues(st.df, r, source_cols))]
           IN Done(Log(InPlace(st, SetColumn(st.df, new_col,
                                    IF operation = "sum" /\ ints THEN "int64" ELSE "float64", out)),
                       LogEntry("Created", new_col, operation, "", source_cols, 0, 0)))

\* feature.get('parameters', {}).get('bins', 5): a feature spec carries no
\* parameters (models/schemas.py, FeatureEngineering)
DefaultBins == 5

\* pd.cut(series, bins=k, labels=None), one cell: the k equal-width intervals
\* over [lo, hi], closed on the right, the first one holding lo
CutCell(c, lo, hi, k) ==
    IF IsNull(c) THEN Null
    ELSE IF lo = hi THEN Ivl((k - 1) \div 2)
    ELSE LET pos == RMul(RSub(Val(c), lo), Rat(k * hi.d * lo.d, (hi.n * lo.d - lo.n * hi.d)))
             up  == IF pos.n % pos.d = 0 THEN pos.n \div pos.d ELSE (pos.n \div pos.d) + 1
         IN Ivl(IF up = 0 THEN 0 ELSE up - 1)

bin_numeric(st, new_col, src) ==
    IF ~HasColumn(st.df, src) THEN Raise(st, "KeyError")
    ELSE LET cells == Column(st.df, src)
             xs == Sorted(Values(cells))
         \* an empty column cannot be cut, text has no width, NaN gives no edges
         IN IF cells = <<>> THEN Raise(st, "ValueError")
            ELSE IF ~is_numeric_dtype(DtypeOf(st.df, src)) THEN Raise(st, "TypeError")
            ELSE IF xs = <<>> THEN Raise(st, "ValueError")
            ELSE Done(Log(InPlace(st, SetColumn(st.df, new_col, "category",
                                  [i \in 1..Len(cells) |->
                                      CutCell(cells[i], xs[1], xs[Len(xs)], DefaultBins)])),
                          LogEntry("Created", new_col, "bin_numeric", "", <<src>>, DefaultBins, 0)))

\* pd.cut(series, bins=[], labels=[]): no labels fit no bin edges
categorize(st, new_col, src) ==
    IF ~HasColumn(st.df, src) THEN Raise(st, "KeyError")
    ELSE CASE is_numeric_dtype(DtypeOf(st.df, src)) -> Raise(st, "ValueError")

\* the try body of one feature spec
FeatureBody(st, feature) ==
    LET new_col == feature.new_column_name
        operation == feature.operation
        source_cols == feature.source_columns
        some == source_cols # <<>>
    IN CASE operation = "extract_year" /\ some ->
              DatePart(st, new_col, source_cols[1], 10000, 10000, "year")
         [] operation = "extract_month" /\ some ->
              DatePart(st, new_col, source_cols[1], 100, 100, "month")
         [] operation = "extract_day" /\ some ->
              DatePart(st, new_col, source_cols[1], 1, 100, "day")
         [] operation = "concatenate" /\ Len(source_cols) >= 2 ->
              concatenate(st, new_col, source_cols)
         [] operation = "sum" /\ some -> row_aggregate(st, new_col, source_cols, "sum")
         [] operation = "average" /\ some -> row_aggregate(st, new_col, source_cols, "average")
         [] operation = "bin_numeric" /\ some -> bin_numeric(st, new_col, source_cols[1])
         [] operation = "categorize" /\ some -> categorize(st, new_col, source_cols[1])
         [] OTHER -> Done(st)

FeatureExcept(r, feature) ==
    IF r.raised
    THEN Log(r.st, ErrorLine("Error creating", feature.new_column_name, "", r.err))
    ELSE r.st

FeatureIteration(st, feature) == FeatureExcept(FeatureBody(st, feature), feature)

RECURSIVE FeatureLoop(_, _)
FeatureLoop(st, features) ==
    IF features = <<>> THEN st
    ELSE FeatureLoop(FeatureIteration(st, Head(features)), Tail(features))

apply_feature_engineering(st, features) == FeatureLoop(Copy(st), features)

-----------------------------------------------------------------------------
(* DataProcessor.apply_filtering.                                          *)

\* a variant of OrderMask whose comparisons are not strict
OrderMaskInclusive(cells, dt, value, greater) ==
    IF \/ dt \in {"datetime64[ns]", "category"}
       \/ \E i \in 1..Len(cells) : cells[i].t \notin {"null", "num"}
    THEN [ok |-> FALSE, mask |-> <<>>]
    ELSE [ok |-> TRUE,
          mask |-> [i \in 1..Len(cells) |->
                      /\ ~IsNull(cells[i])
                      /\ IF greater THEN RLe(value, Val(cells[i]))
                                    ELSE RLe(Val(cells[i]), value)]]

\* df[col] > value and df[col] < value for a float value: [ok, mask]; text,
\* dates and categories do not compare with a float
OrderMask(cells, dt, value, greater) ==
    IF \/ dt \in {"datetime64[ns]", "category"}
       \/ \E i \in 1..Len(cells) : cells[i].t \notin {"null", "num"}
    THEN [ok |-> FALSE, mask |-> <<>>]
    ELSE [ok |-> TRUE,
          mask |-> [i \in 1..Len(cells) |->
                      /\ ~IsNull(cells[i])
                      /\ IF greater THEN RLt(value, Val(cells[i]))
                                    ELSE RLt(Val(cells[i]), value)]]

\* df[col] == value for a str value, one cell: a number never equals text, a
\* date equals the text that parses to it
CellEqualsText(c, value) ==
    CASE c.t = "str" -> c.s = value
      [] c.t = "dt" -> ParseDate(value).ok /\ ParseDate(value).val = c.n
      [] OTHER -> FALSE

\* the operator the if/elif chain finds in a criterion, "" for none
Operator(criterion) ==
    LET gt == Contains(criterion, <<">">>)
        lt == Contains(criterion, <<"<">>)
    IN CASE gt /\ ~lt -> <<">">>
         [] lt /\ ~gt -> <<"<">>
         [] Contains(criterion, <<"=", "=">>) -> <<"=", "=">>
         [] Contains(criterion, <<"!", "=">>) -> <<"!", "=">>
         [] OTHER -> <<>>

\* parts[0].strip() of criterion.split(operator)
CriterionColumn(criterion) == strip(split(criterion, Operator(criterion))[1])

\* the try body of one criterion
FilterBody(st, criterion) ==
    LET sep == Operator(criterion)
        gt == sep = <<">">>
        lt == sep = <<"<">>
        eq == sep = <<"=", "=">>
        ne == sep = <<"!", "=">>
        parts == split(criterion, sep)
        col == CriterionColumn(criterion)
        number == ParseFloat(strip(parts[2]))
        value == strip_quotes(strip(parts[2]))
        cells == Column(st.df, col)
        applied == Line("Applied filter", criterion, "")
    IN CASE gt \/ lt ->
              IF ~number.ok THEN Raise(st, "ValueError")
              ELSE IF ~HasColumn(st.df, col) THEN Raise(st, "KeyError")
              ELSE LET m == OrderMask(cells, DtypeOf(st.df, col), number.val, gt)
                   IN IF ~m.ok THEN Raise(st, "TypeError")
                      ELSE Done(Log(Rebind(st, SelectRows(st.df, m.mask)), applied))
         [] eq ->
              IF ~HasColumn(st.df, col) THEN Raise(st, "KeyError")
              ELSE Done(Log(Rebind(st, SelectRows(st.df,
                        [i \in 1..Len(cells) |-> CellEqualsText(cells[i], value)])), applied))
         [] ne ->
              IF ~HasColumn(st.df, col) THEN Raise(st, "KeyError")
              ELSE Done(Log(Rebind(st, SelectRows(st.df,
                        [i \in 1..Len(cells) |-> ~CellEqualsText(cells[i], value)])), applied))
         [] OTHER -> Done(st)

FilterExcept(r, criterion) ==
    IF r.raised
    THEN Log(r.st, ErrorLine("Error applying filter", criterion, "", r.err))
    ELSE r.st

FilterIteration(st, criterion) == FilterExcept(FilterBody(st, criterion), criterion)

RECURSIVE FilterLoop(_, _)
FilterLoop(st, criteria) ==
    IF criteria = <<>> THEN st
    ELSE FilterLoop(FilterIteration(st, Head(criteria)), Tail(criteria))

apply_filtering(st, criteria) == FilterLoop(Copy(st), criteria)

-----------------------------------------------------------------------------
(* DataProcessor.process_data.                                             *)

\* a variant of ResetLog that keeps the entries of earlier runs
KeepLog(st) == st

\* self.processing_log = []
ResetLog(st) == [st EXCEPT !.log = <<>>]

\* a variant of DropStage that does nothing when no listed name exists
DropStageIfPresent(st, columns_to_drop) ==
    IF \E k \in 1..Len(columns_to_drop) : HasColumn(st.df, columns_to_drop[k])
    THEN Log(Rebind(st, DropColumns(st.df,
                 SelectSeq(columns_to_drop, LAMBDA c : HasColumn(st.df, c)))),
             LogEntry("Dropped columns", <<>>, "", "", columns_to_drop, 0, 0))
    ELSE st

\* the drop stage: df.drop(columns=[the listed names that exist]) and one entry
DropStage(st, columns_to_drop) ==
    IF columns_to_drop # <<>>
    THEN Log(Rebind(st, DropColumns(st.df,
                 SelectSeq(columns_to_drop, LAMBDA c : HasColumn(st.df, c)))),
             LogEntry("Dropped columns", <<>>, "", "", columns_to_drop, 0, 0))
    ELSE st

CleaningStage(st, cleaning_steps) ==
    IF cleaning_steps # <<>> THEN apply_cleaning(st, cleaning_steps) ELSE st

FeatureStage(st, features) ==
    IF features # <<>> THEN apply_feature_engineering(st, features) ELSE st

FilterStage(st, criteria) ==
    IF criteria # <<>> THEN apply_filtering(st, criteria) ELSE st

\* a variant of FinalLine that reports the shape only when the run logged
\* something before it
FinalLineIfLogged(st) ==
    IF st.log = <<>> THEN st
    ELSE Log(st, LogEntry("Final dataset", <<>>, "", "", <<>>, NRows(st.df), NCols(st.df)))

\* self.processing_log.append(f"Final dataset: ...")
FinalLine(st) ==
    Log(st, LogEntry("Final dataset", <<>>, "", "", <<>>, NRows(st.df), NCols(st.df)))

\* a variant of process_data that filters before it engineers features
process_data_filter_first(df, log, recommendations) ==
    FinalLine(
      FeatureStage(
        FilterStage(
          CleaningStage(
            DropStage(ResetLog(Frame(df, log)), recommendations.columns_to_drop),
            recommendations.cleaning_steps),
          recommendations.filtering_criteria),
        recommendations.feature_engineering))

\* process_data(df, recommendations) called with self.processing_log = log:
\* the state it returns in (df is the DataFrame returned)
process_data(df, log, recommendations) ==
    FinalLine(
      FilterStage(
        FeatureStage(
          CleaningStage(
            DropStage(ResetLog(Frame(df, log)), recommendations.columns_to_drop),
            recommendations.cleaning_steps),
          recommendations.feature_engineering),
        recommendations.filtering_criteria))

-----------------------------------------------------------------------------
(* The inputs the environment draws: DataFrames as a loader yields them    *)
(* (an int64 column holds no null) and recommendation documents.           *)

cA == <<"a">>
cB == <<"b">>
cS == <<"s">>
cD == <<"d">>
cN == <<"n">>
cZ == <<"z">>

\* four rows: an int64, a float64 with a null and an outlier, text with a
\* null, and dates as text of which one does not parse
Sales ==
    DataFrame(<<cA, cB, cS, cD>>, <<"int64", "float64", "object", "object">>, <<0, 1, 2, 3>>,
      << <<I(20), I(1), Str(<<"x">>), Str(<<"2", "0", "2", "0", "-", "0", "1", "-", "0", "5">>)>>,
         <<I(30), Null, Null, Str(<<"2", "0", "2", "1", "-", "0", "2", "-", "0", "6">>)>>,
         <<I(40), I(3), Str(<<"y">>), Str(<<"b", "a", "d">>)>>,
         <<I(30), I(100), Str(<<"x">>), Str(<<"2", "0", "2", "0", "-", "0", "1", "-", "0", "5">>)>> >>)

\* a header without rows
Empty == DataFrame(<<cB, cS>>, <<"object", "object">>, <<>>, <<>>)

Datasets == {Sales, Empty}

\* three rows of two float64 columns, most of their cells empty
Sparse ==
    DataFrame(<<cA, cB>>, <<"float64", "float64">>, <<0, 1, 2>>,
      << <<Null, Null>>, <<Null, I(2)>>, <<I(1), Null>> >>)

\* the files uploaded to the service
Uploads == Datasets \cup {Sparse}

CleaningCatalogue ==
    { CleaningStep(cB, "fill_nulls", NoParams),
      CleaningStep(cS, "fill_nulls", Params("mean", AbsentCell, AbsentCell, Absent)),
      CleaningStep(cS, "fill_nulls", Params("median", AbsentCell, AbsentCell, Absent)),
      CleaningStep(cB, "fill_nulls", Params("median", AbsentCell, AbsentCell, Absent)),
      CleaningStep(cB, "fill_nulls", Params("mode", AbsentCell, AbsentCell, Absent)),
      CleaningStep(cS, "fill_nulls", Params("forward_fill", AbsentCell, AbsentCell, Absent)),
      CleaningStep(cS, "fill_nulls", Params("constant", Str(<<"?">>), AbsentCell, Absent)),
      CleaningStep(cS, "fill_nulls", NoneParams),
      CleaningStep(cB, "remove_outliers", NoParams),
      CleaningStep(cB, "remove_outliers", Params("zscore", AbsentCell, I(1), Absent)),
      CleaningStep(cS, "remove_outliers", Params("iqr", AbsentCell, AbsentCell, Absent)),
      CleaningStep(cS, "convert_type", Params(Absent, AbsentCell, AbsentCell, "numeric")),
      CleaningStep(cS, "convert_type", Params(Absent, AbsentCell, AbsentCell, "string")),
      CleaningStep(cD, "convert_type", Params(Absent, AbsentCell, AbsentCell, "datetime")),
      CleaningStep(cA, "drop_column", NoneParams),
      CleaningStep(cZ, "drop_column", NoneParams),
      CleaningStep(cB, "drop_nulls", NoneParams),
      CleaningStep(cA, "normalize", NoneParams) }

FeatureCatalogue ==
    { FeatureSpec(cN, "extract_year", <<cD>>),
      FeatureSpec(cN, "extract_day", <<cZ>>),
      FeatureSpec(cN, "concatenate", <<cA, cS>>),
      FeatureSpec(cN, "concatenate", <<cA>>),
      FeatureSpec(cN, "sum", <<cA, cB>>),
      FeatureSpec(cN, "average", <<cA, cB>>),
      FeatureSpec(cN, "bin_numeric", <<cB>>),
      FeatureSpec(cN, "categorize", <<cA>>),
      FeatureSpec(cN, "scale", <<cA>>) }

FilterCatalogue ==
    { <<"a", " ", ">", " ", "3", "0">>,
      <<"a", " ", "=", "=", " ", "3", "0">>,
      <<"b", " ", "<", " ", "2", ".", "5">>,
      <<"n", " ", ">", " ", "2", "0", "2", "0">>,
      <<"s", " ", "=", "=", " ", "'", "x", "'">>,
      <<"s", " ", "!", "=", " ", "x">>,
      <<"a", " ", ">", "=", " ", "3", "0">>,
      <<"a", " ", "<", ">", " ", "3", "0">>,
      <<"a", " ", "i", "s", " ", "3", "0">> }

DropCatalogue == {cA, cZ}

\* the sequences over S of length k
RECURSIVE SeqsOfLen(_, _)
SeqsOfLen(S, k) ==
    IF k = 0 THEN {<<>>}
    ELSE {Append(q, x) : q \in SeqsOfLen(S, k - 1), x \in S}

Size(rec) ==
    Len(rec.columns_to_drop) + Len(rec.cleaning_steps)
      + Len(rec.feature_engineering) + Len(rec.filtering_criteria)

\* the recommendation documents of at most k items over the catalogues
Recommendations(k) ==
    UNION { { Recommendation(dr, cl, fe, fi) :
                dr \in SeqsOfLen(DropCatalogue, n[1]), cl \in SeqsOfLen(CleaningCatalogue, n[2]),
                fe \in SeqsOfLen(FeatureCatalogue, n[3]), fi \in SeqsOfLen(FilterCatalogue, n[4]) } :
            n \in {m \in (0..k) \X (0..k) \X (0..k) \X (0..k) : m[1] + m[2] + m[3] + m[4] <= k} }

EmptyRecommendation == Recommendation(<<>>, <<>>, <<>>, <<>>)


-----------------------------------------------------------------------------
(* The requests and what they return.                                      *)

NoFrame == DataFrame(<<>>, <<>>, <<>>, <<>>)

\* the last call or request: the method or handler (op), its session, the
\* recommendation and the DataFrame it ran on (before), the log at its start
\* (log0), the DataFrame and the log it returned, and how many calls were
\* handled so far; status is the HTTP status of a request, 200 for a call
\* that returned
Response(op, session, rec, before, log0, out, log, run) ==
    [op |-> op, session |-> session, rec |-> rec, before |-> before, log0 |-> log0,
     out |-> out, log |-> log, run |-> run, status |-> 200]

\* a validate request and, once done, its result
ValidationRequest(chart_type, x_axis, y_axis, columns) ==
    [chart_type |-> chart_type, x_axis |-> x_axis, y_axis |-> y_axis, columns |-> columns,
     done |-> FALSE, is_compatible |-> TRUE, reason |-> <<>>, suggested_alternatives |-> <<>>]

NoValidation == ValidationRequest("", <<>>, <<>>, <<>>)

\* routers/auth.py before any request: the four tables empty; now is the
\* clock in seconds, issued the number of tokens drawn from secrets and
\* ticks the number of times the clock was advanced
NoAuth ==
    [users |-> <<>>, verification_tokens |-> <<>>, reset_tokens |-> <<>>, sessions |-> <<>>,
     now |-> 0, issued |-> 0, ticks |-> 0]

-----------------------------------------------------------------------------
(* The pipeline called directly: a caller holds one DataFrame and calls    *)
(* the methods of data_processor on it, one call after another.            *)

InitPipeline ==
    /\ frame \in Datasets
    /\ processing_log = <<>>
    /\ data_store = <<>>
    /\ files = <<>>
    /\ last = Response("init", 0, EmptyRecommendation, NoFrame, <<>>, NoFrame, <<>>, 0)
    /\ validation = NoValidation
    /\ steps_left = MaxSteps
    /\ session_log = <<>>
    /\ chart_store = <<>>
    /\ auth = NoAuth

ProcessData ==
    /\ steps_left >= 1
    /\ \E rec \in Recommendations(steps_left - 1) :
          \E st \in {process_data(frame, processing_log, rec)} :
             /\ frame' = st.arg
             /\ processing_log' = st.log
             /\ last' = Response("process_data", 0, rec, frame, processing_log, st.df, st.log,
                                 last.run + 1)
             /\ steps_left' = steps_left - 1 - Size(rec)
             /\ UNCHANGED <<data_store, files, validation, session_log, chart_store, auth>>

\* data_processor.apply_cleaning(frame, steps) called on its own
ApplyCleaning ==
    /\ steps_left >= 2
    /\ \E k \in 1..(steps_left - 1) : \E steps \in SeqsOfLen(CleaningCatalogue, k) :
          \E st \in {apply_cleaning(Frame(frame, processing_log), steps)} :
             /\ frame' = st.arg
             /\ processing_log' = st.log
             /\ last' = Response("apply_cleaning", 0, Recommendation(<<>>, steps, <<>>, <<>>),
                                 frame, processing_log, st.df, st.log, last.run + 1)
             /\ steps_left' = steps_left - 1 - k
             /\ UNCHANGED <<data_store, files, validation, session_log, chart_store, auth>>

\* data_processor.apply_feature_engineering(frame, features) called on its own
ApplyFeatureEngineering ==
    /\ steps_left >= 2
    /\ \E k \in 1..(steps_left - 1) : \E features \in SeqsOfLen(FeatureCatalogue, k) :
          \E st \in {apply_feature_engineering(Frame(frame, processing_log), features)} :
             /\ frame' = st.arg
             /\ processing_log' = st.log
             /\ last' = Response("apply_feature_engineering", 0,
                                 Recommendation(<<>>, <<>>, features, <<>>),
                                 frame, processing_log, st.df, st.log, last.run + 1)
             /\ steps_left' = steps_left - 1 - k
             /\ UNCHANGED <<data_store, files, validation, session_log, chart_store, auth>>

\* data_processor.apply_filtering(frame, criteria) called on its own
ApplyFiltering ==
    /\ steps_left >= 2
    /\ \E k \in 1..(steps_left - 1) : \E criteria \in SeqsOfLen(FilterCatalogue, k) :
          \E st \in {apply_filtering(Frame(frame, processing_log), criteria)} :
             /\ frame' = st.arg
             /\ processing_log' = st.log
             /\ last' = Response("apply_filtering", 0, Recommendation(<<>>, <<>>, <<>>, criteria),
                                 frame, processing_log, st.df, st.log, last.run + 1)
             /\ steps_left' = steps_left - 1 - k
             /\ UNCHANGED <<data_store, files, validation, session_log, chart_store, auth>>

NextPipeline == ProcessData \/ ApplyCleaning \/ ApplyFeatureEngineering \/ ApplyFiltering

SpecPipeline == InitPipeline /\ [][NextPipeline]_vars

-----------------------------------------------------------------------------
(* DataProcessor.analyze_schema.                                           *)

\* a variant of Round2 that rounds to whole numbers
RoundWhole(x) ==
    LET scaled == x.n \div x.d
        twice  == (x.n * 2) \div x.d
        exact  == (x.n * 2) % x.d = 0
        up     == twice % 2 = 1 /\ (~exact \/ scaled % 2 = 1)
    IN Rat(IF up THEN scaled + 1 ELSE scaled, 1)

\* round(x, 2) of a rational x >= 0, ties to even
Round2(x) ==
    LET scaled == (x.n * 100) \div x.d
        twice  == (x.n * 200) \div x.d
        exact  == (x.n * 200) % x.d = 0
        up     == twice % 2 = 1 /\ (~exact \/ scaled % 2 = 1)
    IN Rat(IF up THEN scaled + 1 ELSE scaled, 100)

\* series.nunique(): the distinct values that are not null
Unique(cells) == {cells[i] : i \in {k \in 1..Len(cells) : ~IsNull(cells[k])}}

Head5(seq) == SubSeq(seq, 1, IF Len(seq) < 5 THEN Len(seq) ELSE 5)

\* one entry of the columns list; unique_count < min(50, len(df) * 0.1) is
\* compared in tenths
ColumnInfo(df, c) ==
    LET cells == Column(df, c)
        dt == DtypeOf(df, c)
        null_count == Len(cells) - Len(NonNull(cells))
        unique_count == Cardinality(Unique(cells))
    IN [name |-> c,
        dtype |-> dt,
        null_count |-> null_count,
        null_percentage |-> IF NRows(df) > 0 THEN Round2(Rat(null_count * 100, NRows(df)))
                            ELSE RInt(0),
        unique_count |-> unique_count,
        sample_values |-> Head5(NonNull(cells)),
        is_numeric |-> is_numeric_dtype(dt),
        is_datetime |-> is_datetime64_any_dtype(dt),
        is_categorical |-> \/ dt = "object"
                           \/ unique_count * 10 < (IF NRows(df) < 500 THEN NRows(df) ELSE 500)]

\* the schema without memory_usage_mb, which no handler reads
analyze_schema(df) ==
    [columns |-> [k \in 1..NCols(df) |-> ColumnInfo(df, df.columns[k])],
     row_count |-> NRows(df),
     column_count |-> NCols(df)]

-----------------------------------------------------------------------------
(* services/storage_service.py: the session store and the data directory.  *)

None == "<None>"

Path(dir, session_id, ext) == [dir |-> dir, session_id |-> session_id, ext |-> ext]

\* None where a path is expected
NoPath == Path(None, None, None)

HasSession(store, session_id) == session_id \in DOMAIN store

\* os.path.exists(path)
Exists(fs, path) == path \in DOMAIN fs

\* save_uploaded_file: [store, fs, session_id]; session_id is the uuid4, an
\* id no session had before; the file holds what the parser reads from the
\* bytes
save_uploaded_file(store, fs, session_id, df, file_type) ==
    LET file_path == Path("uploads", session_id, file_type)
    IN [store |-> store @@ (session_id :>
                    [id |-> session_id, file_type |-> file_type,
                     original_data_path |-> file_path, processed_data_path |-> NoPath,
                     schema_info |-> None, row_count |-> None, column_count |-> None]),
        fs |-> fs @@ (file_path :> df),
        session_id |-> session_id]

\* a variant of load_dataframe that reads the processed file when the
\* session has one
load_dataframe_latest(store, fs, session_id) ==
    IF ~HasSession(store, session_id) THEN [found |-> FALSE, df |-> NoFrame]
    ELSE LET file_path == IF store[session_id].processed_data_path # NoPath
                          THEN store[session_id].processed_data_path
                          ELSE store[session_id].original_data_path
         IN IF ~Exists(fs, file_path) THEN [found |-> FALSE, df |-> NoFrame]
            ELSE [found |-> TRUE, df |-> fs[file_path]]

\* load_dataframe(session_id, processed=False): [found, df]
load_dataframe(store, fs, session_id) ==
    IF ~HasSession(store, session_id) THEN [found |-> FALSE, df |-> NoFrame]
    ELSE IF ~Exists(fs, store[session_id].original_data_path)
         THEN [found |-> FALSE, df |-> NoFrame]
    ELSE [found |-> TRUE, df |-> fs[store[session_id].original_data_path]]

\* df.to_parquet(path, index=False) and df.to_csv(path, index=False): the
\* columns are written, the row labels are not
Written(df) == [df EXCEPT !.index = [i \in 1..NRows(df) |-> i - 1]]

\* save_processed_dataframe: [store, fs]; ext is "parquet" when to_parquet
\* succeeded and "csv" when it raised and the CSV fallback ran
save_processed_dataframe(store, fs, session_id, df, ext) ==
    LET file_path == Path("processed", session_id, ext)
    IN [store |-> IF HasSession(store, session_id)
                  THEN [store EXCEPT ![session_id].processed_data_path = file_path,
                                     ![session_id].row_count = NRows(df),
                                     ![session_id].column_count = NCols(df)]
                  ELSE store,
        fs |-> IF Exists(fs, file_path) THEN [fs EXCEPT ![file_path] = Written(df)]
               ELSE fs @@ (file_path :> Written(df))]

\* update_session
update_session(store, session_id, key, value) ==
    IF HasSession(store, session_id) THEN [store EXCEPT ![session_id][key] = value]
    ELSE store

save_schema_info(store, session_id, schema_info) ==
    update_session(store, session_id, "schema_info", schema_info)

-----------------------------------------------------------------------------
(* The service: routers/upload.py and routers/processing.py over the       *)
(* stores.  A handler runs from its first line to its last write without   *)
(* an await, so a request is one step.                                     *)

\* the recommendation documents sent to /apply; pydantic gives a cleaning
\* step without parameters the value None
ServiceRecommendations ==
    { EmptyRecommendation,
      Recommendation(<<cA>>, <<CleaningStep(cB, "drop_nulls", NoneParams)>>, <<>>, <<>>),
      Recommendation(<<>>, <<>>, <<FeatureSpec(cN, "extract_year", <<cD>>)>>,
                     <<<<"n", " ", ">", " ", "2", "0", "2", "0">>>>) }

Formats == {"parquet", "csv"}

\* a response that is an HTTP error
Failed(op, session_id, status) ==
    [Response(op, session_id, EmptyRecommendation, NoFrame, processing_log, NoFrame, <<>>,
              last.run + 1) EXCEPT !.status = status]

InitService ==
    /\ frame = NoFrame
    /\ processing_log = <<>>
    /\ data_store = <<>>
    /\ files = <<>>
    /\ last = Response("init", 0, EmptyRecommendation, NoFrame, <<>>, NoFrame, <<>>, 0)
    /\ validation = NoValidation
    /\ steps_left = MaxRequests
    /\ session_log = <<>>
    /\ chart_store = <<>>
    /\ auth = NoAuth

\* POST /api/upload of a CSV file that parses to df; the uuid4 of the n-th
\* upload is n
UploadFile ==
    /\ steps_left >= 1
    /\ Len(session_log) < MaxSessions
    /\ \E df \in Uploads :
          \E saved \in {save_uploaded_file(data_store, files, Len(session_log) + 1, df,
                                           "csv")} :
             /\ data_store' = save_schema_info(saved.store, saved.session_id, analyze_schema(df))
             /\ files' = saved.fs
             /\ session_log' = Append(session_log, <<>>)
             /\ last' = Response("upload_file", saved.session_id, EmptyRecommendation, NoFrame,
                                 processing_log, df, <<>>, last.run + 1)
    /\ steps_left' = steps_left - 1
    /\ UNCHANGED <<frame, processing_log, validation, chart_store, auth>>

\* POST /api/processing/apply
ApplyProcessing ==
    /\ steps_left >= 1
    /\ \E session_id \in 1..MaxSessions :
          \E loaded \in {load_dataframe(data_store, files, session_id)} :
             IF ~loaded.found
             THEN /\ last' = Failed("apply_processing", session_id, 404)
                  /\ UNCHANGED <<processing_log, data_store, files, session_log>>
             ELSE \E rec \in ServiceRecommendations, ext \in Formats :
                     \E st \in {process_data(loaded.df, processing_log, rec)} :
                        \E saved \in {save_processed_dataframe(data_store, files, session_id,
                                                               st.df, ext)} :
                           /\ processing_log' = st.log
                           /\ data_store' = saved.store
                           /\ files' = saved.fs
                           /\ session_log' = [session_log EXCEPT ![session_id] = st.log]
                           /\ last' = Response("apply_processing", session_id, rec, loaded.df,
                                               processing_log, st.df, st.log, last.run + 1)
    /\ steps_left' = steps_left - 1
    /\ UNCHANGED <<frame, validation, chart_store, auth>>

\* GET /api/processing/log/{session_id}
GetProcessingLog ==
    /\ steps_left >= 1
    /\ \E session_id \in 1..MaxSessions :
          last' = IF ~HasSession(data_store, session_id)
                  THEN Failed("get_processing_log", session_id, 404)
                  ELSE Response("get_processing_log", session_id, EmptyRecommendation, NoFrame,
                                processing_log, NoFrame, processing_log, last.run + 1)
    /\ steps_left' = steps_left - 1
    /\ UNCHANGED <<frame, processing_log, data_store, files, validation, session_log,
                   chart_store, auth>>

\* POST /api/processing/reset/{session_id}
ResetProcessing ==
    /\ steps_left >= 1
    /\ \E session_id \in 1..MaxSessions :
          IF ~HasSession(data_store, session_id)
          THEN /\ last' = Failed("reset_processing", session_id, 404)
               /\ UNCHANGED data_store
          ELSE \E store \in {update_session(data_store, session_id,
                                            "processed_data_path", NoPath)} :
                  \E loaded \in {load_dataframe(store, files, session_id)} :
                     /\ data_store' = store
                     /\ last' = IF ~loaded.found
                                THEN Failed("reset_processing", session_id, 404)
                                ELSE Response("reset_processing", session_id,
                                              EmptyRecommendation, NoFrame, processing_log,
                                              loaded.df, <<>>, last.run + 1)
    /\ steps_left' = steps_left - 1
    /\ UNCHANGED <<frame, processing_log, files, validation, session_log, chart_store, auth>>

-----------------------------------------------------------------------------
(* models/schemas.py, ChartType, and services/visualization_service.py.    *)

LINE == "line"
AREA == "area"
BAR == "bar"
HORIZONTAL_BAR == "horizontal_bar"
STACKED_BAR == "stacked_bar"
GROUPED_BAR == "grouped_bar"
SCATTER == "scatter"
BUBBLE == "bubble"
PIE == "pie"
DONUT == "donut"
BOX == "box"
VIOLIN == "violin"
HEATMAP == "heatmap"

ChartTypes ==
    {LINE, AREA, BAR, HORIZONTAL_BAR, STACKED_BAR, GROUPED_BAR, SCATTER,
     BUBBLE, PIE, DONUT, BOX, VIOLIN, HEATMAP}

\* a variant of the matrix in which BAR lists PIE and DONUT back
compatibility_matrix_symmetric ==
       LINE :> <<AREA, SCATTER, BAR>>
    @@ AREA :> <<LINE, SCATTER>>
    @@ BAR :> <<HORIZONTAL_BAR, STACKED_BAR, GROUPED_BAR, LINE, PIE, DONUT>>
    @@ HORIZONTAL_BAR :> <<BAR, STACKED_BAR>>
    @@ STACKED_BAR :> <<BAR, GROUPED_BAR, HORIZONTAL_BAR>>
    @@ GROUPED_BAR :> <<BAR, STACKED_BAR>>
    @@ SCATTER :> <<LINE, BUBBLE, AREA>>
    @@ BUBBLE :> <<SCATTER>>
    @@ PIE :> <<DONUT, BAR>>
    @@ DONUT :> <<PIE, BAR>>
    @@ BOX :> <<VIOLIN>>
    @@ VIOLIN :> <<BOX>>
    @@ HEATMAP :> <<>>

\* a variant of the matrix in which BAR does not list LINE
compatibility_matrix_bar_without_line ==
       LINE :> <<AREA, SCATTER, BAR>>
    @@ AREA :> <<LINE, SCATTER>>
    @@ BAR :> <<HORIZONTAL_BAR, STACKED_BAR, GROUPED_BAR>>
    @@ HORIZONTAL_BAR :> <<BAR, STACKED_BAR>>
    @@ STACKED_BAR :> <<BAR, GROUPED_BAR, HORIZONTAL_BAR>>
    @@ GROUPED_BAR :> <<BAR, STACKED_BAR>>
    @@ SCATTER :> <<LINE, BUBBLE, AREA>>
    @@ BUBBLE :> <<SCATTER>>
    @@ PIE :> <<DONUT, BAR>>
    @@ DONUT :> <<PIE, BAR>>
    @@ BOX :> <<VIOLIN>>
    @@ VIOLIN :> <<BOX>>
    @@ HEATMAP :> <<>>

\* self.compatibility_matrix
compatibility_matrix ==
       LINE :> <<AREA, SCATTER, BAR>>
    @@ AREA :> <<LINE, SCATTER>>
    @@ BAR :> <<HORIZONTAL_BAR, STACKED_BAR, GROUPED_BAR, LINE>>
    @@ HORIZONTAL_BAR :> <<BAR, STACKED_BAR>>
    @@ STACKED_BAR :> <<BAR, GROUPED_BAR, HORIZONTAL_BAR>>
    @@ GROUPED_BAR :> <<BAR, STACKED_BAR>>
    @@ SCATTER :> <<LINE, BUBBLE, AREA>>
    @@ BUBBLE :> <<SCATTER>>
    @@ PIE :> <<DONUT, BAR>>
    @@ DONUT :> <<PIE, BAR>>
    @@ BOX :> <<VIOLIN>>
    @@ VIOLIN :> <<BOX>>
    @@ HEATMAP :> <<>>

Requirement(min_dimensions, max_dimensions, x_type, y_type, requires_ordered_x) ==
    [min_dimensions |-> min_dimensions, max_dimensions |-> max_dimensions,
     x_type |-> x_type, y_type |-> y_type, requires_ordered_x |-> requires_ordered_x]

\* self.chart_requirements; the value_type of HEATMAP is read nowhere
chart_requirements ==
       LINE :> Requirement(2, 3, <<"temporal", "sequential", "numeric">>, <<"numeric">>, TRUE)
    @@ AREA :> Requirement(2, 3, <<"temporal", "sequential", "numeric">>, <<"numeric">>, TRUE)
    @@ BAR :> Requirement(2, 3, <<"categorical", "string">>, <<"numeric">>, FALSE)
    @@ HORIZONTAL_BAR :> Requirement(2, 3, <<"numeric">>, <<"categorical", "string">>, FALSE)
    @@ STACKED_BAR :> Requirement(3, 3, <<"categorical">>, <<"numeric">>, FALSE)
    @@ GROUPED_BAR :> Requirement(3, 3, <<"categorical">>, <<"numeric">>, FALSE)
    @@ SCATTER :> Requirement(2, 4, <<"numeric">>, <<"numeric">>, FALSE)
    @@ BUBBLE :> Requirement(3, 4, <<"numeric">>, <<"numeric">>, FALSE)
    @@ PIE :> Requirement(2, 2, <<"categorical">>, <<"numeric">>, FALSE)
    @@ DONUT :> Requirement(2, 2, <<"categorical">>, <<"numeric">>, FALSE)
    @@ BOX :> Requirement(2, 2, <<"categorical">>, <<"numeric">>, FALSE)
    @@ VIOLIN :> Requirement(2, 2, <<"categorical">>, <<"numeric">>, FALSE)
    @@ HEATMAP :> Requirement(3, 3, <<"categorical">>, <<"categorical">>, FALSE)

In(x, seq) == \E i \in 1..Len(seq) : seq[i] = x

\* one entry of issues: its kind, the column or the bound it names, and the
\* number of dimensions counted
Issue(kind, col, bound, n) == [kind |-> kind, col |-> col, bound |-> bound, n |-> n]

\* a variant of num_dimensions that counts the y columns alone
num_dimensions_y_only(y_columns) == Len(y_columns)

\* num_dimensions = 1 + len(y_columns)
num_dimensions(y_columns) == 1 + Len(y_columns)

\* next((c for c in columns_info if c['name'] == x_column), None), as the list
\* of the entries found: none or the first
x_col_info(columns_info, x_column) ==
    LET found == SelectSeq(columns_info, LAMBDA c : c.name = x_column)
    IN IF found = <<>> THEN <<>> ELSE <<found[1]>>

\* [c for c in columns_info if c['name'] in y_columns]
y_col_infos(columns_info, y_columns) ==
    SelectSeq(columns_info, LAMBDA c : In(c.name, y_columns))

dimension_issues(requirements, n) ==
    (IF n < requirements.min_dimensions
     THEN <<Issue("at least", <<>>, requirements.min_dimensions, n)>> ELSE <<>>)
    \o (IF n > requirements.max_dimensions
        THEN <<Issue("at most", <<>>, requirements.max_dimensions, n)>> ELSE <<>>)

\* a variant of x_is_valid without the rule for "string"
x_is_valid_without_string(x_type_req, info) ==
    \/ In("numeric", x_type_req) /\ info.is_numeric
    \/ In("categorical", x_type_req) /\ info.is_categorical
    \/ In("temporal", x_type_req) /\ info.is_datetime

x_is_valid(x_type_req, info) ==
    \/ In("numeric", x_type_req) /\ info.is_numeric
    \/ In("categorical", x_type_req) /\ info.is_categorical
    \/ In("temporal", x_type_req) /\ info.is_datetime
    \/ In("string", x_type_req) /\ ~info.is_numeric

x_issues(requirements, infos, x_column) ==
    IF infos # <<>> /\ requirements.x_type # <<>> /\ ~x_is_valid(requirements.x_type, infos[1])
    THEN <<Issue("x-axis", x_column, 0, 0)>>
    ELSE <<>>

y_is_valid(y_type_req, info) ==
    \/ In("numeric", y_type_req) /\ info.is_numeric
    \/ In("categorical", y_type_req) /\ info.is_categorical

y_issues(requirements, infos) ==
    IF requirements.y_type = <<>> THEN <<>>
    ELSE LET bad == SelectSeq(infos, LAMBDA c : ~y_is_valid(requirements.y_type, c))
         IN [i \in 1..Len(bad) |-> Issue("y-axis", bad[i].name, 0, 0)]

\* "; ".join(issues)
RECURSIVE Join(_)
Join(issues) ==
    IF issues = <<>> THEN <<>>
    ELSE IF Len(issues) = 1 THEN <<issues[1]>>
    ELSE <<issues[1], Issue("; ", <<>>, 0, 0)>> \o Join(Tail(issues))

\* a variant of the slice that keeps the whole row
WholeRow(seq) == seq

\* alternatives[:3]
First3(seq) == SubSeq(seq, 1, IF Len(seq) < 3 THEN Len(seq) ELSE 3)

\* validate_chart_compatibility(chart_type, data_info); every chart type has
\* requirements, so the early return is not taken
validate_chart_compatibility(chart_type, x_column, y_columns, columns_info) ==
    LET requirements == chart_requirements[chart_type]
        issues == dimension_issues(requirements, num_dimensions(y_columns))
                    \o x_issues(requirements, x_col_info(columns_info, x_column), x_column)
                    \o y_issues(requirements, y_col_infos(columns_info, y_columns))
    IN [is_compatible |-> issues = <<>>,
        reason |-> IF issues # <<>> THEN Join(issues)
                   ELSE <<Issue("compatible", <<>>, 0, 0)>>,
        suggested_alternatives |-> First3(compatibility_matrix[chart_type])]

\* a variant of get_compatible_chart_types that cuts the row as validate does
get_compatible_chart_types_first3(current_type) == First3(compatibility_matrix[current_type])

\* get_compatible_chart_types
get_compatible_chart_types(current_type) == compatibility_matrix[current_type]

\* what a call of the chart service returns: a value, or the exception raised
Returned(data) == [ok |-> TRUE, err |-> "", data |-> data]
Raised(err) == [ok |-> FALSE, err |-> err, data |-> <<>>]

\* df[cols].to_dict('records'): one dict per row, keyed by column label
Records(df, cols) ==
    [r \in 1..NRows(df) |-> [c \in {cols[k] : k \in 1..Len(cols)} |-> Column(df, c)[r]]]

\* cells in ascending order
RECURSIVE SortedCells(_)
SortedCells(S) ==
    IF S = {} THEN <<>>
    ELSE LET m == CHOOSE a \in S : \A b \in S : a = b \/ CellLess(a, b)
         IN <<m>> \o SortedCells(S \ {m})

\* the keys of df.groupby(x_axis): the values present, in ascending order,
\* null left out; for a category column every category, observed or not
\* (observed=False, the default of the pandas 1.x / 2.x line)
GroupKeys(df, x_axis) ==
    IF DtypeOf(df, x_axis) = "category" THEN [k \in 1..DefaultBins |-> Ivl(k - 1)]
    ELSE SortedCells(Unique(Column(df, x_axis)))

\* df.groupby(x_axis)[y].sum() for one key: the sum of the values of y in the
\* rows of the key, nulls skipped, 0 for no value
GroupSum(df, x_axis, y, key) ==
    LET xs == Column(df, x_axis)
        ys == Column(df, y)
        rows == SelectSeq([r \in 1..NRows(df) |-> r], LAMBDA r : xs[r] = key)
    IN Num(RSum(Values([i \in 1..Len(rows) |-> ys[rows[i]]])))

\* df.sort_values(by=x_axis): ascending, NaT last, equal keys in row order
RECURSIVE sort_values(_, _)
sort_values(df, x_axis) ==
    IF NRows(df) = 0 THEN df
    ELSE LET keys == Column(df, x_axis)
             first == CHOOSE r \in 1..NRows(df) :
                        \A q \in 1..NRows(df) :
                           \/ q = r
                           \/ (IsNull(keys[q]) /\ (q > r \/ ~IsNull(keys[r])))
                           \/ (~IsNull(keys[q]) /\ ~IsNull(keys[r])
                               /\ (CellLess(keys[r], keys[q])
                                   \/ (keys[r] = keys[q] /\ r < q)))
             mask == [r \in 1..NRows(df) |-> r # first]
             rest == sort_values(SelectRows(df, mask), x_axis)
         IN [df EXCEPT !.index = <<df.index[first]>> \o rest.index,
                       !.data = <<df.data[first]>> \o rest.data]

\* prepare_chart_data(df, chart_type, x_axis, y_axis, filters=None).  Both
\* callers validate the request first, so the first y column of a pie or
\* donut chart is numeric when the dataset has it.  The BOX branch and the
\* pivot of HEATMAP are outside the requests made here.
prepare_chart_data(df, chart_type, x_axis, y_axis) ==
    LET cols == SelectSeq(<<x_axis>> \o y_axis, LAMBDA c : HasColumn(df, c))
    IN CASE chart_type \in {PIE, DONUT} /\ y_axis # <<>> ->
              IF ~HasColumn(df, x_axis) \/ ~HasColumn(df, y_axis[1]) THEN Raised("KeyError")
              \* reset_index cannot insert a column the result already has
              ELSE IF x_axis = y_axis[1] THEN Raised("ValueError")
              ELSE (CASE is_numeric_dtype(DtypeOf(df, y_axis[1])) ->
                      LET keys == GroupKeys(df, x_axis)
                      IN Returned([i \in 1..Len(keys) |->
                                      (x_axis :> keys[i])
                                      @@ (y_axis[1] :> GroupSum(df, x_axis, y_axis[1], keys[i]))]))
         [] chart_type \in {LINE, AREA} ->
              IF ~HasColumn(df, x_axis) THEN Raised("KeyError")
              ELSE IF is_datetime64_any_dtype(DtypeOf(df, x_axis))
                   THEN Returned(Records(sort_values(df, x_axis), cols))
              ELSE Returned(Records(df, cols))
         [] \/ chart_type \in {BAR, SCATTER}
            \/ chart_type \in {PIE, DONUT} /\ y_axis = <<>>
            \/ chart_type = HEATMAP /\ Len(y_axis) < 2
            \/ chart_type \in {HORIZONTAL_BAR, STACKED_BAR, GROUPED_BAR, BUBBLE, VIOLIN} ->
              Returned(Records(df, cols))

\* suggest_optimal_chart(df, x_col, y_cols); df[x_col] raises KeyError for a
\* column the dataset lacks, and nunique < min(50, len(df) * 0.1) is compared
\* in tenths
suggest_optimal_chart(df, x_col, y_cols) ==
    IF ~HasColumn(df, x_col) THEN Raised("KeyError")
    ELSE LET x_is_datetime == is_datetime64_any_dtype(DtypeOf(df, x_col))
             x_is_numeric == is_numeric_dtype(DtypeOf(df, x_col))
             nunique == Cardinality(Unique(Column(df, x_col)))
             x_is_categorical ==
                 \/ DtypeOf(df, x_col) = "object"
                 \/ nunique * 10 < (IF NRows(df) < 500 THEN NRows(df) ELSE 500)
             y_is_numeric ==
                 \A i \in 1..Len(y_cols) :
                    HasColumn(df, y_cols[i]) => is_numeric_dtype(DtypeOf(df, y_cols[i]))
         IN Returned(
              IF x_is_datetime /\ y_is_numeric /\ Len(y_cols) = 1 THEN LINE
              ELSE IF x_is_categorical /\ y_is_numeric
                   THEN (IF Len(y_cols) = 1 THEN BAR ELSE GROUPED_BAR)
              ELSE IF x_is_numeric /\ y_is_numeric /\ Len(y_cols) >= 1 THEN SCATTER
              ELSE IF x_is_categorical /\ Len(y_cols) = 1 /\ y_is_numeric /\ nunique <= 8
                   THEN PIE
              ELSE BAR)

-----------------------------------------------------------------------------
(* Chart requests: validate_chart_compatibility called on the schema of a  *)
(* processed dataset.                                                      *)

\* the four rows with the dates parsed and b cut into bins: an int64, a
\* float64, a text, a datetime and a category column
ChartFrame ==
    process_data(Sales, <<>>,
        Recommendation(<<>>,
            <<CleaningStep(cD, "convert_type", Params(Absent, AbsentCell, AbsentCell, "datetime"))>>,
            <<FeatureSpec(cN, "bin_numeric", <<cB>>)>>, <<>>)).df

ChartColumns == analyze_schema(ChartFrame).columns

AxisNames == {cA, cB, cS, cD, cN, cZ}

\* the y_axis lists of a request
YAxes == UNION {SeqsOfLen(AxisNames \ {cD}, k) : k \in 0..MaxY}

\* the requests the environment makes
InitValidate ==
    /\ frame = ChartFrame
    /\ processing_log = <<>>
    /\ data_store = <<>>
    /\ files = <<>>
    /\ last = Response("init", 0, EmptyRecommendation, NoFrame, <<>>, NoFrame, <<>>, 0)
    /\ validation \in {ValidationRequest(chart_type, x_axis, y_axis, ChartColumns) :
                          chart_type \in ChartTypes, x_axis \in AxisNames \ {cB},
                          y_axis \in YAxes}
    /\ steps_left = 0
    /\ session_log = <<>>
    /\ chart_store = <<>>
    /\ auth = NoAuth

Validate ==
    /\ ~validation.done
    /\ \E result \in {validate_chart_compatibility(validation.chart_type, validation.x_axis,
                                                    validation.y_axis, validation.columns)} :
          validation' = [validation EXCEPT !.done = TRUE,
                                           !.is_compatible = result.is_compatible,
                                           !.reason = result.reason,
                                           !.suggested_alternatives = result.suggested_alternatives]
    /\ UNCHANGED <<frame, processing_log, data_store, files, last, steps_left, session_log,
                   chart_store, auth>>

\* the response to a call of the chart service: the dataset it ran on and
\* what it returned or raised
ChartResponse(op, session, before, result, status) ==
    [Response(op, session, EmptyRecommendation, before, processing_log, NoFrame, <<>>,
              last.run + 1) EXCEPT !.status = status]
    @@ [ok |-> result.ok, err |-> result.err, data |-> result.data]

\* the requests prepare_chart_data is modelled for
Preparable(v) ==
    /\ v.chart_type # BOX
    /\ v.chart_type = HEATMAP => Len(v.y_axis) < 2
    /\ (v.chart_type \in {PIE, DONUT} /\ v.y_axis # <<>> /\ HasColumn(frame, v.x_axis)
          /\ HasColumn(frame, v.y_axis[1]) /\ v.x_axis # v.y_axis[1])
       => is_numeric_dtype(DtypeOf(frame, v.y_axis[1]))

\* visualization_service.prepare_chart_data called with the request
PrepareChartData ==
    /\ Preparable(validation)
    /\ last.op = "init"
    /\ \E result \in {prepare_chart_data(frame, validation.chart_type, validation.x_axis,
                                         validation.y_axis)} :
          last' = ChartResponse("prepare_chart_data", 0, frame, result, 200)
    /\ UNCHANGED <<frame, processing_log, data_store, files, validation, steps_left,
                   session_log, chart_store, auth>>

\* visualization_service.suggest_optimal_chart called with the axes of the
\* request
SuggestOptimalChart ==
    /\ last.op = "init"
    /\ \E result \in {suggest_optimal_chart(frame, validation.x_axis, validation.y_axis)} :
          last' = ChartResponse("suggest_optimal_chart", 0, frame, result, 200)
    /\ UNCHANGED <<frame, processing_log, data_store, files, validation, steps_left,
                   session_log, chart_store, auth>>

\* visualization_service.get_compatible_chart_types called with the chart
\* type of the request
GetCompatibleChartTypes ==
    /\ last.op = "init"
    /\ last' = ChartResponse("get_compatible_chart_types", 0, frame,
                             Returned(get_compatible_chart_types(validation.chart_type)), 200)
    /\ UNCHANGED <<frame, processing_log, data_store, files, validation, steps_left,
                   session_log, chart_store, auth>>

NextValidate ==
    Validate \/ PrepareChartData \/ SuggestOptimalChart \/ GetCompatibleChartTypes

SpecValidate == InitValidate /\ [][NextValidate]_vars

-----------------------------------------------------------------------------
(* The chart requests of the service: routers/visualization.py over the    *)
(* chart store.                                                            *)

\* load_dataframe(session_id, processed=True): the processed file when the
\* session has a processed_data_path, the original file otherwise; the
\* columns the recommendations of the service produce read back from
\* either format as they were written
load_dataframe_processed(store, fs, session_id) ==
    IF ~HasSession(store, session_id) THEN [found |-> FALSE, df |-> NoFrame]
    ELSE LET file_path == IF store[session_id].processed_data_path # NoPath
                          THEN store[session_id].processed_data_path
                          ELSE store[session_id].original_data_path
         IN IF ~Exists(fs, file_path) THEN [found |-> FALSE, df |-> NoFrame]
            ELSE [found |-> TRUE, df |-> fs[file_path]]

\* df = load_dataframe(session_id, processed=True), and load_dataframe(
\* session_id) if that is None
load_current(store, fs, session_id) ==
    IF load_dataframe_processed(store, fs, session_id).found
    THEN load_dataframe_processed(store, fs, session_id)
    ELSE load_dataframe(store, fs, session_id)

\* save_chart_configuration: the chart store with the configuration under a
\* fresh id; a uuid4 is a fresh id and utcnow() the time, here both the
\* number of the request
save_chart_configuration(charts, now, session_id, chart_config) ==
    charts @@ (now :> (chart_config
                       @@ [id |-> now, session_id |-> session_id, created_at |-> now]))

\* get_chart_configuration: [found, config]
get_chart_configuration(charts, chart_id) ==
    IF chart_id \in DOMAIN charts THEN [found |-> TRUE, config |-> charts[chart_id]]
    ELSE [found |-> FALSE, config |-> <<>>]

\* the request with the result of validate_chart_compatibility
Checked(chart_type, x_axis, y_axis, columns) ==
    LET result == validate_chart_compatibility(chart_type, x_axis, y_axis, columns)
    IN [ValidationRequest(chart_type, x_axis, y_axis, columns)
          EXCEPT !.done = TRUE,
                 !.is_compatible = result.is_compatible,
                 !.reason = result.reason,
                 !.suggested_alternatives = result.suggested_alternatives]

\* what a chart handler leaves: the HTTP status, the dataset it loaded, what
\* it returned, the validation it ran and the chart store
Outcome(status, before, result, v, charts) ==
    [status |-> status, before |-> before, result |-> result, validation |-> v,
     charts |-> charts]

\* create_chart(request), with title and filters left out
create_chart(store, fs, charts, now, session_id, chart_type, x_axis, y_axis) ==
    LET loaded == load_current(store, fs, session_id)
        request == ValidationRequest(chart_type, x_axis, y_axis, <<>>)
        df == loaded.df
        v == Checked(chart_type, x_axis, y_axis, analyze_schema(df).columns)
        chart_data == prepare_chart_data(df, chart_type, x_axis, y_axis)
        chart_config == [chart_type |-> chart_type, x_axis |-> x_axis, y_axis |-> y_axis,
                         data |-> chart_data.data]
    IN IF ~HasSession(store, session_id)
       THEN Outcome(404, NoFrame, Raised("Session not found"), request, charts)
       ELSE IF ~loaded.found
       THEN Outcome(404, NoFrame, Raised("Data not found"), request, charts)
       ELSE IF ~HasColumn(df, x_axis)
       THEN Outcome(400, df, Raised("X-axis column not found"), request, charts)
       ELSE IF \E i \in 1..Len(y_axis) : ~HasColumn(df, y_axis[i])
       THEN Outcome(400, df, Raised("Y-axis column not found"), request, charts)
       ELSE IF ~v.is_compatible
       THEN Outcome(400, df, Raised("Chart type not compatible"), v, charts)
       ELSE IF ~chart_data.ok
       THEN Outcome(500, df, chart_data, v, charts)
       ELSE Outcome(200, df, chart_data, v,
                    save_chart_configuration(charts, now, session_id, chart_config))

\* convert_chart(chart_id, target_type); an incompatible target is answered
\* with success False and status 200
convert_chart(store, fs, charts, now, chart_id, target_type) ==
    LET found == get_chart_configuration(charts, chart_id)
        chart_config == found.config
        loaded == load_current(store, fs, chart_config.session_id)
        df == loaded.df
        v == Checked(target_type, chart_config.x_axis, chart_config.y_axis,
                     analyze_schema(df).columns)
        chart_data == prepare_chart_data(df, target_type, chart_config.x_axis,
                                         chart_config.y_axis)
        updated_config == [chart_type |-> target_type, x_axis |-> chart_config.x_axis,
                           y_axis |-> chart_config.y_axis, data |-> chart_data.data]
    IN IF ~found.found
       THEN Outcome(404, NoFrame, Raised("Chart not found"), NoValidation, charts)
       ELSE IF ~loaded.found
       THEN Outcome(404, NoFrame, Raised("Data not found"),
                    ValidationRequest(target_type, chart_config.x_axis, chart_config.y_axis,
                                      <<>>), charts)
       ELSE IF ~v.is_compatible
       THEN Outcome(200, df, Raised("success: False"), v, charts)
       ELSE IF ~chart_data.ok
       THEN Outcome(500, df, chart_data, v, charts)
       ELSE Outcome(200, df, chart_data, v,
                    save_chart_configuration(charts, now, chart_config.session_id,
                                             updated_config))

\* the charts asked for: chart type, x_axis, y_axis
ChartRequests ==
    { <<BAR, cS, <<cA>>>>, <<SCATTER, cA, <<cB>>>>, <<PIE, cS, <<cB>>>>,
      <<BAR, cZ, <<cA>>>>, <<LINE, cA, <<cB, cZ>>>> }

\* the chart types charts are converted to
TargetTypes == {BAR, SCATTER, PIE, LINE}

\* POST /api/visualization/create
CreateChart ==
    /\ steps_left >= 1
    /\ \E session_id \in 1..MaxSessions, request \in ChartRequests :
          \E o \in {create_chart(data_store, files, chart_store, last.run + 1, session_id,
                                 request[1], request[2], request[3])} :
             /\ chart_store' = o.charts
             /\ validation' = o.validation
             /\ last' = ChartResponse("create_chart", session_id, o.before, o.result, o.status)
    /\ steps_left' = steps_left - 1
    /\ UNCHANGED <<frame, processing_log, data_store, files, session_log, auth>>

\* POST /api/visualization/convert/{chart_id}; 0 is the id of no chart
ConvertChart ==
    /\ steps_left >= 1
    /\ \E chart_id \in DOMAIN chart_store \cup {0}, target_type \in TargetTypes :
          \E o \in {convert_chart(data_store, files, chart_store, last.run + 1, chart_id,
                                  target_type)} :
             /\ chart_store' = o.charts
             /\ validation' = o.validation
             /\ last' = ChartResponse("convert_chart",
                                      IF chart_id = 0 THEN 0
                                      ELSE chart_store[chart_id].session_id,
                                      o.before, o.result, o.status)
                        @@ [chart_id |-> chart_id]
    /\ steps_left' = steps_left - 1
    /\ UNCHANGED <<frame, processing_log, data_store, files, session_log, auth>>

NextService ==
    \/ UploadFile
    \/ ApplyProcessing
    \/ GetProcessingLog
    \/ ResetProcessing
    \/ CreateChart
    \/ ConvertChart

SpecService == InitService /\ [][NextService]_vars

-----------------------------------------------------------------------------
(* The requests that delete, and custom processing: routers/upload.py,     *)
(* routers/visualization.py and routers/processing.py over the stores.     *)

\* a function without the keys in gone
Without(f, gone) == [k \in DOMAIN f \ gone |-> f[k]]

\* storage_service.delete_chart: [ok, charts]
delete_chart(charts, chart_id) ==
    IF chart_id \in DOMAIN charts
    THEN [ok |-> TRUE, charts |-> Without(charts, {chart_id})]
    ELSE [ok |-> FALSE, charts |-> charts]

\* a variant of delete_session that leaves the charts of the session
delete_session_keeping_charts(store, fs, charts, session_id) ==
    IF ~HasSession(store, session_id)
    THEN [ok |-> FALSE, store |-> store, fs |-> fs, charts |-> charts]
    ELSE LET metadata == store[session_id]
             paths == {metadata.original_data_path, metadata.processed_data_path}
         IN [ok |-> TRUE,
             store |-> Without(store, {session_id}),
             fs |-> Without(fs, {path \in paths : path # NoPath /\ Exists(fs, path)}),
             charts |-> charts]

\* storage_service.delete_session: [ok, store, fs, charts]; os.remove for
\* each of the two paths of the metadata that is set and exists
delete_session(store, fs, charts, session_id) ==
    IF ~HasSession(store, session_id)
    THEN [ok |-> FALSE, store |-> store, fs |-> fs, charts |-> charts]
    ELSE LET metadata == store[session_id]
             paths == {metadata.original_data_path, metadata.processed_data_path}
             charts_to_delete == {cid \in DOMAIN charts : charts[cid].session_id = session_id}
         IN [ok |-> TRUE,
             store |-> Without(store, {session_id}),
             fs |-> Without(fs, {path \in paths : path # NoPath /\ Exists(fs, path)}),
             charts |-> Without(charts, charts_to_delete)]

\* one entry of the operations list of /custom; a key that is not given is
\* Absent, AbsentCell for value; ascending is "true" or "false"
CustomOp(type, column, method, condition, value, ascending) ==
    [type |-> type, column |-> column, method |-> method, condition |-> condition,
     value |-> value, ascending |-> ascending]

\* the branch of one custom operation: [raised, err, df].  The dataset is
\* the original file read back, so its columns are int64, float64 or object.
custom_fill_nulls(df, op) ==
    LET col == op.column
        cells == Column(df, col)
        dt == DtypeOf(df, col)
        method == IF op.method = Absent THEN "mean" ELSE op.method
        filled(v) == LET f == FillNa(cells, dt, v)
                     IN [raised |-> FALSE, err |-> "", df |-> SetColumn(df, col, f.dtype, f.cells)]
    IN CASE method \in {"mean", "median"} /\ ~is_numeric_dtype(dt) ->
               [raised |-> TRUE, err |-> "TypeError", df |-> df]
         [] method = "mean" -> filled(Mean(cells))
         [] method = "median" -> filled(Median(cells))
         [] method = "mode" ->
               IF NonNull(cells) = <<>> THEN [raised |-> TRUE, err |-> "KeyError", df |-> df]
               ELSE filled(ModeValue(cells))
         [] OTHER ->
               IF op.value = Null THEN [raised |-> TRUE, err |-> "ValueError", df |-> df]
               ELSE filled(IF op.value = AbsentCell THEN Str(<<>>) ELSE op.value)

\* df[col] == value for one cell and a JSON value
CellEquals(c, value) ==
    CASE c.t = "num" /\ value.t = "num" -> Val(c) = Val(value)
      [] c.t = "str" /\ value.t = "str" -> c.s = value.s
      [] OTHER -> FALSE

\* the filter branch: gt and lt raise TypeError when text meets a number;
\* a null cell satisfies ne alone; value is a list of cells for "in"
custom_filter(df, op) ==
    LET cells == Column(df, op.column)
        value == op.value
        n == Len(cells)
        kept(mask) == [raised |-> FALSE, err |-> "", df |-> SelectRows(df, mask)]
        mixed == \E i \in 1..n : ~IsNull(cells[i]) /\ cells[i].t # value.t
    IN CASE op.condition \in {"gt", "lt"} ->
               IF value.t \notin {"num", "str"} \/ mixed
               THEN [raised |-> TRUE, err |-> "TypeError", df |-> df]
               ELSE kept([i \in 1..n |->
                            /\ ~IsNull(cells[i])
                            /\ IF op.condition = "gt" THEN CellLess(value, cells[i])
                                                      ELSE CellLess(cells[i], value)])
         [] op.condition = "eq" -> kept([i \in 1..n |-> CellEquals(cells[i], value)])
         [] op.condition = "ne" -> kept([i \in 1..n |-> ~CellEquals(cells[i], value)])
         [] op.condition = "in" ->
               kept([i \in 1..n |-> \E k \in 1..Len(value) : CellEquals(cells[i], value[k])])
         [] OTHER -> [raised |-> FALSE, err |-> "", df |-> df]

\* df.sort_values(by=col, ascending=False): descending, NaN last, equal keys
\* in row order
RECURSIVE sort_values_descending(_, _)
sort_values_descending(df, col) ==
    IF NRows(df) = 0 THEN df
    ELSE LET keys == Column(df, col)
             first == CHOOSE r \in 1..NRows(df) :
                        \A q \in 1..NRows(df) :
                           \/ q = r
                           \/ (IsNull(keys[q]) /\ (q > r \/ ~IsNull(keys[r])))
                           \/ (~IsNull(keys[q]) /\ ~IsNull(keys[r])
                               /\ (CellLess(keys[q], keys[r])
                                   \/ (keys[r] = keys[q] /\ r < q)))
             mask == [r \in 1..NRows(df) |-> r # first]
             rest == sort_values_descending(SelectRows(df, mask), col)
         IN [df EXCEPT !.index = <<df.index[first]>> \o rest.index,
                       !.data = <<df.data[first]>> \o rest.data]

\* one pass of the loop over operations; an operation on a column the
\* dataset lacks, or of an unknown type, does nothing
custom_operation(df, op) ==
    IF op.type \notin {"drop_column", "fill_nulls", "filter", "sort"} \/ ~HasColumn(df, op.column)
    THEN [raised |-> FALSE, err |-> "", df |-> df]
    ELSE CASE op.type = "drop_column" ->
                 [raised |-> FALSE, err |-> "", df |-> DropColumns(df, <<op.column>>)]
           [] op.type = "fill_nulls" -> custom_fill_nulls(df, op)
           [] op.type = "filter" -> custom_filter(df, op)
           [] op.type = "sort" ->
                 [raised |-> FALSE, err |-> "",
                  df |-> IF op.ascending = "false" THEN sort_values_descending(df, op.column)
                         ELSE sort_values(df, op.column)]

\* for op in operations: the first exception ends the loop
RECURSIVE custom_operations(_, _)
custom_operations(df, operations) ==
    IF operations = <<>> THEN [raised |-> FALSE, err |-> "", df |-> df]
    ELSE LET r == custom_operation(df, Head(operations))
         IN IF r.raised THEN r ELSE custom_operations(r.df, Tail(operations))

\* apply_custom_processing: [status, before, df, store, fs]; nothing is
\* saved when an operation raised
apply_custom_processing(store, fs, session_id, operations, ext) ==
    LET loaded == load_dataframe(store, fs, session_id)
        r == custom_operations(loaded.df, operations)
        saved == save_processed_dataframe(store, fs, session_id, r.df, ext)
    IN IF ~HasSession(store, session_id) \/ ~loaded.found
       THEN [status |-> 404, before |-> NoFrame, df |-> NoFrame, store |-> store, fs |-> fs]
       ELSE IF r.raised
       THEN [status |-> 500, before |-> loaded.df, df |-> NoFrame, store |-> store, fs |-> fs]
       ELSE [status |-> 200, before |-> loaded.df, df |-> r.df, store |-> saved.store,
             fs |-> saved.fs]

\* the operations lists sent to /custom
CustomRequests ==
    { <<CustomOp("filter", cA, Absent, "gt", I(25), Absent)>>,
      <<CustomOp("fill_nulls", cB, "median", Absent, AbsentCell, Absent),
        CustomOp("sort", cB, Absent, Absent, AbsentCell, "false")>>,
      <<CustomOp("drop_column", cD, Absent, Absent, AbsentCell, Absent),
        CustomOp("filter", cS, Absent, "in", <<Str(<<"y">>), I(1)>>, Absent)>>,
      <<CustomOp("sort", cA, Absent, Absent, AbsentCell, Absent),
        CustomOp("fill_nulls", cS, Absent, Absent, AbsentCell, Absent)>> }

\* POST /api/processing/custom
ApplyCustomProcessing ==
    /\ steps_left >= 1
    /\ \E session_id \in 1..MaxSessions, operations \in CustomRequests, ext \in Formats :
          \E o \in {apply_custom_processing(data_store, files, session_id, operations, ext)} :
             /\ data_store' = o.store
             /\ files' = o.fs
             /\ last' = [Response("apply_custom_processing", session_id, EmptyRecommendation,
                                  o.before, processing_log, o.df, <<>>, last.run + 1)
                           EXCEPT !.status = o.status]
                        @@ [operations |-> operations]
    /\ steps_left' = steps_left - 1
    /\ UNCHANGED <<frame, processing_log, validation, session_log, chart_store, auth>>

\* DELETE /api/visualization/chart/{chart_id}; 0 is the id of no chart
DeleteChart ==
    /\ steps_left >= 1
    /\ \E chart_id \in DOMAIN chart_store \cup {0} :
          \E o \in {delete_chart(chart_store, chart_id)} :
             /\ chart_store' = o.charts
             /\ last' = [Response("delete_chart", 0, EmptyRecommendation, NoFrame,
                                  processing_log, NoFrame, <<>>, last.run + 1)
                           EXCEPT !.status = IF o.ok THEN 200 ELSE 404]
                        @@ [chart_id |-> chart_id]
    /\ steps_left' = steps_left - 1
    /\ UNCHANGED <<frame, processing_log, data_store, files, validation, session_log, auth>>

\* DELETE /api/upload/session/{session_id}
DeleteSession ==
    /\ steps_left >= 1
    /\ \E session_id \in 1..MaxSessions :
          \E o \in {delete_session(data_store, files, chart_store, session_id)} :
             /\ data_store' = o.store
             /\ files' = o.fs
             /\ chart_store' = o.charts
             /\ last' = [Response("delete_session", session_id, EmptyRecommendation, NoFrame,
                                  processing_log, NoFrame, <<>>, last.run + 1)
                           EXCEPT !.status = IF o.ok THEN 200 ELSE 404]
    /\ steps_left' = steps_left - 1
    /\ UNCHANGED <<frame, processing_log, validation, session_log, auth>>

\* The requests of this specification are those of the service with fewer
\* inputs: the Sales file is the one uploaded, /apply is sent the
\* recommendation that drops a, two charts are asked for and charts are
\* converted to two types.
UploadSalesFile == UploadFile /\ last'.out = Sales

ApplyDroppingA ==
    ApplyProcessing /\ (last'.status = 200 => last'.rec.columns_to_drop = <<cA>>)

CreateBarOrScatter ==
    CreateChart /\ <<validation'.chart_type, validation'.x_axis>> \in {<<BAR, cS>>, <<SCATTER, cA>>}

ConvertToBarOrLine == ConvertChart /\ validation'.chart_type \in {"", BAR, LINE}

NextStorage ==
    \/ UploadSalesFile
    \/ ApplyDroppingA
    \/ ApplyCustomProcessing
    \/ ResetProcessing
    \/ CreateBarOrScatter
    \/ ConvertToBarOrLine
    \/ DeleteChart
    \/ DeleteSession

SpecStorage == InitService /\ [][NextStorage]_vars

-----------------------------------------------------------------------------
(* routers/auth.py: accounts, tokens and sessions.  A handler has no await, *)
(* so a request is one step; the clock stands still while it runs.         *)

\* a variant that allows one more wrong password before the lock
MAX_LOGIN_ATTEMPTS_six == 5 + 1

MAX_LOGIN_ATTEMPTS == 5
\* the durations of the module, in seconds
LOCK_MINUTES == 15 * 60
VERIFY_TOKEN_HOURS == 24 * 3600
RESET_TOKEN_MINUTES == 30 * 60
RESEND_COOLDOWN_SECONDS == 60

\* the capital and the small letters, and each capital's small letter
UpperCase == {Alphabet[k] : k \in Ord("A")..Ord("Z")}
LowerCase == {Alphabet[k] : k \in Ord("a")..Ord("z")}
LowerOf == [ch \in UpperCase |-> Alphabet[Ord(ch) - Ord("A") + Ord("a")]]

IsUpper(ch) == ch \in UpperCase
IsLower(ch) == ch \in LowerCase

\* str.lower()
lower(s) == [i \in 1..Len(s) |-> IF IsUpper(s[i]) THEN LowerOf[s[i]] ELSE s[i]]

\* re.match(r"^[^@\s]+@[^@\s]+\.[^@\s]+$", s): one "@" with text before it,
\* and after it a "." that has text on both sides; no whitespace
MatchesEmail(s) ==
    /\ \A i \in 1..Len(s) : ~IsSpace(s[i])
    /\ Cardinality({i \in 1..Len(s) : s[i] = "@"}) = 1
    /\ LET at == Find(s, <<"@">>)
       IN /\ at > 1
          /\ \E j \in (at + 2)..(Len(s) - 1) : s[j] = "."

\* _validate_email: [ok, email]; not ok is the HTTPException 400
_validate_email(email) ==
    LET normalized == strip(lower(email))
    IN [ok |-> MatchesEmail(normalized), email |-> normalized]

\* _validate_password_strength: TRUE when no HTTPException 400 is raised
_validate_password_strength(password) ==
    /\ Len(password) >= 8
    /\ \E i \in 1..Len(password) : IsUpper(password[i])
    /\ \E i \in 1..Len(password) : IsLower(password[i])
    /\ \E i \in 1..Len(password) : IsDigit(password[i])
    /\ \E i \in 1..Len(password) :
          LET ch == password[i]
          IN ~(IsUpper(ch) \/ IsLower(ch) \/ IsDigit(ch) \/ ch = "_" \/ IsSpace(ch))

\* _hash_password: SHA-256, taken to have no collisions
_hash_password(password) == [sha256 |-> password]

\* secrets.token_urlsafe: a token no earlier draw returned, here the number
\* of the draw
token_urlsafe(a) == a.issued + 1

\* _create_token_record(minutes, hours) with the resend_available_at both
\* callers add to it
_create_token_record(a, duration) ==
    [token |-> token_urlsafe(a), expires_at |-> a.now + duration,
     resend_available_at |-> a.now + RESEND_COOLDOWN_SECONDS]

\* _token_expired for a record that exists
_token_expired(a, record) == a.now > record.expires_at

\* what a handler leaves: the HTTP status, the token it returned (0 for
\* none) and the tables
Reply(status, token, a) == [status |-> status, token |-> token, auth |-> a]

signup(a, email_in, password) ==
    LET v == _validate_email(email_in)
        email == v.email
        token_record == _create_token_record(a, VERIFY_TOKEN_HOURS)
        user == [email |-> email, password_hash |-> _hash_password(password),
                 is_verified |-> FALSE, failed_attempts |-> 0, locked_until |-> 0]
    IN IF ~v.ok \/ ~_validate_password_strength(password) THEN Reply(400, 0, a)
       ELSE IF email \in DOMAIN a.users THEN Reply(400, 0, a)
       ELSE Reply(200, token_record.token,
                  [a EXCEPT !.users = @ @@ (email :> user),
                            !.verification_tokens = (email :> token_record) @@ @,
                            !.issued = @ + 1])

resend_verification(a, email_in) ==
    LET v == _validate_email(email_in)
        email == v.email
        token_record == _create_token_record(a, VERIFY_TOKEN_HOURS)
    IN IF ~v.ok THEN Reply(400, 0, a)
       ELSE IF email \notin DOMAIN a.users THEN Reply(404, 0, a)
       ELSE IF a.users[email].is_verified THEN Reply(400, 0, a)
       ELSE IF /\ email \in DOMAIN a.verification_tokens
               /\ a.now < a.verification_tokens[email].resend_available_at
            THEN Reply(429, 0, a)
       ELSE Reply(200, token_record.token,
                  [a EXCEPT !.verification_tokens = (email :> token_record) @@ @,
                            !.issued = @ + 1])

verify_email(a, email_in, token) ==
    LET v == _validate_email(email_in)
        email == v.email
    IN IF ~v.ok THEN Reply(400, 0, a)
       ELSE IF email \notin DOMAIN a.users THEN Reply(404, 0, a)
       ELSE IF \/ email \notin DOMAIN a.verification_tokens
               \/ _token_expired(a, a.verification_tokens[email])
            THEN Reply(400, 0, a)
       ELSE IF token # a.verification_tokens[email].token THEN Reply(400, 0, a)
       ELSE Reply(200, 0,
                  [a EXCEPT !.users[email].is_verified = TRUE,
                            !.verification_tokens =
                                [e \in DOMAIN @ \ {email} |-> @[e]]])

\* a variant of login that does not ask whether the address was verified
login_without_verification(a, email_in, password, remember_me) ==
    LET v == _validate_email(email_in)
        email == v.email
        user == a.users[email]
        attempts == user.failed_attempts + 1
        session_token == token_urlsafe(a)
        expiry_hours == IF remember_me THEN 24 * 7 ELSE 8
    IN IF ~v.ok THEN Reply(400, 0, a)
       ELSE IF email \notin DOMAIN a.users THEN Reply(401, 0, a)
       ELSE IF user.locked_until # 0 /\ a.now < user.locked_until THEN Reply(423, 0, a)
       ELSE IF user.password_hash # _hash_password(password)
            THEN IF attempts >= MAX_LOGIN_ATTEMPTS
                 THEN Reply(423, 0, [a EXCEPT !.users[email].locked_until = a.now + LOCK_MINUTES,
                                              !.users[email].failed_attempts = 0])
                 ELSE Reply(401, 0, [a EXCEPT !.users[email].failed_attempts = attempts])
       ELSE Reply(200, session_token,
                  [a EXCEPT !.users[email].failed_attempts = 0,
                            !.users[email].locked_until = 0,
                            !.sessions = @ @@ (session_token :>
                                [email |-> email, created_at |-> a.now,
                                 expires_at |-> a.now + expiry_hours * 3600]),
                            !.issued = @ + 1])

\* locked_until is 0 for None
login(a, email_in, password, remember_me) ==
    LET v == _validate_email(email_in)
        email == v.email
        user == a.users[email]
        attempts == user.failed_attempts + 1
        session_token == token_urlsafe(a)
        expiry_hours == IF remember_me THEN 24 * 7 ELSE 8
    IN IF ~v.ok THEN Reply(400, 0, a)
       ELSE IF email \notin DOMAIN a.users THEN Reply(401, 0, a)
       ELSE IF user.locked_until # 0 /\ a.now < user.locked_until THEN Reply(423, 0, a)
       ELSE IF user.password_hash # _hash_password(password)
            THEN IF attempts >= MAX_LOGIN_ATTEMPTS
                 THEN Reply(423, 0, [a EXCEPT !.users[email].locked_until = a.now + LOCK_MINUTES,
                                              !.users[email].failed_attempts = 0])
                 ELSE Reply(401, 0, [a EXCEPT !.users[email].failed_attempts = attempts])
       ELSE IF ~user.is_verified THEN Reply(403, 0, a)
       ELSE Reply(200, session_token,
                  [a EXCEPT !.users[email].failed_attempts = 0,
                            !.users[email].locked_until = 0,
                            !.sessions = @ @@ (session_token :>
                                [email |-> email, created_at |-> a.now,
                                 expires_at |-> a.now + expiry_hours * 3600]),
                            !.issued = @ + 1])

\* the Authorization header: bearer is TRUE for "Bearer <token>"; FALSE, a
\* header that is missing or of another scheme, is the HTTPException 401
_parse_bearer(authorization) == [ok |-> authorization.bearer, token |-> authorization.token]

me(a, authorization) ==
    LET p == _parse_bearer(authorization)
    IN IF ~p.ok THEN Reply(401, 0, a)
       ELSE IF p.token \notin DOMAIN a.sessions THEN Reply(401, 0, a)
       ELSE IF _token_expired(a, a.sessions[p.token])
            THEN Reply(401, 0, [a EXCEPT !.sessions = [t \in DOMAIN @ \ {p.token} |-> @[t]]])
       ELSE IF a.sessions[p.token].email \notin DOMAIN a.users THEN Reply(401, 0, a)
       ELSE Reply(200, 0, a)

logout(a, authorization) ==
    LET p == _parse_bearer(authorization)
    IN IF ~p.ok THEN Reply(401, 0, a)
       ELSE Reply(200, 0, [a EXCEPT !.sessions = [t \in DOMAIN @ \ {p.token} |-> @[t]]])

forgot_password(a, email_in) ==
    LET v == _validate_email(email_in)
        email == v.email
        token_record == _create_token_record(a, RESET_TOKEN_MINUTES)
    IN IF ~v.ok THEN Reply(400, 0, a)
       ELSE IF email \in DOMAIN a.users
            THEN Reply(200, token_record.token,
                       [a EXCEPT !.reset_tokens = (email :> token_record) @@ @,
                                 !.issued = @ + 1])
       ELSE Reply(200, 0, a)

reset_password(a, email_in, token, new_password) ==
    LET v == _validate_email(email_in)
        email == v.email
    IN IF ~v.ok \/ ~_validate_password_strength(new_password) THEN Reply(400, 0, a)
       ELSE IF email \notin DOMAIN a.users THEN Reply(404, 0, a)
       ELSE IF \/ email \notin DOMAIN a.reset_tokens
               \/ _token_expired(a, a.reset_tokens[email])
            THEN Reply(400, 0, a)
       ELSE IF token # a.reset_tokens[email].token THEN Reply(400, 0, a)
       ELSE Reply(200, 0,
                  [a EXCEPT !.users[email].password_hash = _hash_password(new_password),
                            !.reset_tokens = [e \in DOMAIN @ \ {email} |-> @[e]]])

\* the addresses requests carry: an address spelled with a leading blank and
\* a capital, and, for signup and login, a text that is no address
Address == <<" ", "A", "@", "b", ".", "c">>
NoAddress == <<"a", "@", "b">>
EmailInputs == {Address, NoAddress}

\* a password that passes the strength check, another one, and one without
\* a special character
Password1 == <<"A", "a", "1", "!", "a", "a", "a", "a">>
Password2 == <<"B", "b", "2", "?", "b", "b", "b", "b">>
WeakPassword == <<"A", "a", "1", "a", "a", "a", "a", "a">>

\* the tokens a client can present: those issued so far, and 0, which none is
Presentable == 0..auth.issued

\* the Authorization headers: none, and a bearer token
Authorizations ==
    {[bearer |-> FALSE, token |-> 0]} \cup {[bearer |-> TRUE, token |-> t] : t \in Presentable}

\* the steps of the clock: the resend cooldown, which leaves a lock in
\* force, and the lock time
Ticks == {RESEND_COOLDOWN_SECONDS, LOCK_MINUTES}

\* the request just handled and its answer
AuthResponse(op, email, password, token, o) ==
    [op |-> op, email |-> email, password |-> password, token |-> token,
     status |-> o.status]

\* a request is made when the tokens it draws are within the bound
Answer(op, email, password, token, reply) ==
    \E o \in {reply} :
       /\ o.auth.issued <= MaxTokens
       /\ auth' = o.auth
       /\ last' = AuthResponse(op, email, password, token, o)
       /\ UNCHANGED <<frame, processing_log, data_store, files, validation, steps_left,
                      session_log, chart_store>>

InitAuth ==
    /\ frame = NoFrame
    /\ processing_log = <<>>
    /\ data_store = <<>>
    /\ files = <<>>
    /\ last = Response("init", 0, EmptyRecommendation, NoFrame, <<>>, NoFrame, <<>>, 0)
    /\ validation = NoValidation
    /\ steps_left = 0
    /\ session_log = <<>>
    /\ chart_store = <<>>
    /\ auth = NoAuth

\* time passes between two requests
Tick ==
    /\ auth.ticks < MaxTicks
    /\ \E d \in Ticks : auth' = [auth EXCEPT !.now = @ + d, !.ticks = @ + 1]
    /\ last' = [op |-> "tick", email |-> <<>>, password |-> <<>>, token |-> 0,
                status |-> 200]
    /\ UNCHANGED <<frame, processing_log, data_store, files, validation, steps_left,
                   session_log, chart_store>>

\* POST /api/auth/signup
Signup ==
    \E email \in EmailInputs, password \in {Password1, WeakPassword} :
       Answer("signup", email, password, 0, signup(auth, email, password))

\* POST /api/auth/resend-verification
ResendVerification ==
    \E email \in {Address} :
       Answer("resend_verification", email, <<>>, 0, resend_verification(auth, email))

\* POST /api/auth/verify-email
VerifyEmail ==
    \E email \in {Address}, token \in Presentable :
       Answer("verify_email", email, <<>>, token, verify_email(auth, email, token))

\* POST /api/auth/login
Login ==
    \E email \in EmailInputs, password \in {Password1, Password2}, remember_me \in {FALSE} :
       Answer("login", email, password, 0, login(auth, email, password, remember_me))

\* GET /api/auth/me
Me ==
    \E authorization \in Authorizations :
       Answer("me", <<>>, <<>>, authorization.token, me(auth, authorization))

\* POST /api/auth/logout
Logout ==
    \E authorization \in Authorizations :
       Answer("logout", <<>>, <<>>, authorization.token, logout(auth, authorization))

\* POST /api/auth/forgot-password
ForgotPassword ==
    \E email \in {Address} :
       Answer("forgot_password", email, <<>>, 0, forgot_password(auth, email))

\* POST /api/auth/reset-password
ResetPassword ==
    \E email \in {Address}, token \in Presentable, new_password \in {Password2, WeakPassword} :
       Answer("reset_password", email, new_password, token,
              reset_password(auth, email, token, new_password))

NextAuth ==
    \/ Tick
    \/ Signup
    \/ ResendVerification
    \/ VerifyEmail
    \/ Login
    \/ Me
    \/ Logout
    \/ ForgotPassword
    \/ ResetPassword

SpecAuth == InitAuth /\ [][NextAuth]_vars

-----------------------------------------------------------------------------
(* Properties of the pipeline, stated over the last call (SpecPipeline).   *)

Names(seq) == {seq[i] : i \in 1..Len(seq)}

CleaningLines ==
    {"Filled nulls", "Removed outliers", "Converted", "Dropped column",
     "Dropped rows with nulls", "Error in"}
FeatureLines == {"Created", "Error creating"}
FilterLines == {"Applied filter", "Error applying filter"}

\* the stage a log entry comes from: 1 drops, 2 cleaning, 3 features,
\* 4 filtering, 5 the final line
StageOf(entry) ==
    CASE entry.msg = "Dropped columns" -> 1
      [] entry.msg \in CleaningLines -> 2
      [] entry.msg \in FeatureLines -> 3
      [] entry.msg \in FilterLines -> 4
      [] entry.msg = "Final dataset" -> 5

\* xs is a subsequence of ys
RECURSIVE IsSubsequence(_, _)
IsSubsequence(xs, ys) ==
    IF xs = <<>> THEN TRUE
    ELSE IF ys = <<>> THEN FALSE
    ELSE IF Head(xs) = Head(ys) THEN IsSubsequence(Tail(xs), Tail(ys))
    ELSE IsSubsequence(xs, Tail(ys))

\* the names the entries of one stage carry, in log order
StageNames(log, stage) ==
    LET es == SelectSeq(log, LAMBDA e : StageOf(e) = stage)
    IN [i \in 1..Len(es) |-> es[i].name]

FullRun == last.op = "process_data"

\* C1: a full run executes drops, cleaning, features, filtering in that
\* order, each list in list order and each stage on the output of the one
\* before: the log lines come in stage order and, within a stage, in list
\* order; no cleaning step succeeds on a column named in columns_to_drop;
\* and a criterion on a column that feature engineering created in the same
\* run finds that column.
StageOrderFixed ==
    FullRun =>
      /\ \A i, j \in 1..Len(last.log) :
            i < j => StageOf(last.log[i]) <= StageOf(last.log[j])
      /\ IsSubsequence(StageNames(last.log, 2),
                       [i \in 1..Len(last.rec.cleaning_steps) |->
                           last.rec.cleaning_steps[i].column_name])
      /\ IsSubsequence(StageNames(last.log, 3),
                       [i \in 1..Len(last.rec.feature_engineering) |->
                           last.rec.feature_engineering[i].new_column_name])
      /\ IsSubsequence(StageNames(last.log, 4), last.rec.filtering_criteria)
      /\ \A i \in 1..Len(last.log) :
            /\ StageOf(last.log[i]) = 2 /\ last.log[i].err = ""
                  => last.log[i].name \notin Names(last.rec.columns_to_drop)
            /\ ( /\ StageOf(last.log[i]) = 4
                 /\ Operator(last.log[i].name) # <<>>
                 /\ \E j \in 1..Len(last.log) :
                       /\ last.log[j].msg = "Created"
                       /\ last.log[j].name = CriterionColumn(last.log[i].name) )
                  => last.log[i].err # "KeyError"

\* a run that creates column n from the dates and keeps the rows with
\* n > 2020: one row, and no error line
StageOrderWitness ==
    /\ FullRun
    /\ ~HasColumn(last.before, cN)
    /\ Len(last.log) = 3
    /\ last.log[1].msg = "Created" /\ last.log[1].name = cN
    /\ last.log[2].msg = "Applied filter" /\ CriterionColumn(last.log[2].name) = cN
    /\ NRows(last.out) = 1 /\ HasColumn(last.out, cN)

\* C4: a full run empties the log before it appends, and ends the log with
\* the final line, which reports the shape of the DataFrame returned: the
\* log of a run holds one final line, the last one, and no more entries than
\* the run has stages to write them; a stage called on its own only appends.
LogResetAndFinalLine ==
    /\ FullRun =>
         /\ last.log # <<>>
         /\ last.log[Len(last.log)] =
               LogEntry("Final dataset", <<>>, "", "", <<>>, NRows(last.out), NCols(last.out))
         /\ \A i \in 1..(Len(last.log) - 1) : last.log[i].msg # "Final dataset"
         /\ Len(last.log) <= 1 + (IF last.rec.columns_to_drop # <<>> THEN 1 ELSE 0)
                               + Len(last.rec.cleaning_steps)
                               + Len(last.rec.feature_engineering)
                               + Len(last.rec.filtering_criteria)
         /\ processing_log = last.log
    /\ last.op \in {"apply_cleaning", "apply_feature_engineering", "apply_filtering"} =>
         /\ Len(last.log0) <= Len(last.log)
         /\ SubSeq(last.log, 1, Len(last.log0)) = last.log0

\* a full run that started with the entry of a cleaning step in the log
LogResetWitness ==
    /\ FullRun
    /\ last.log0 # <<>>
    /\ StageOf(last.log0[1]) = 2
    /\ Len(last.log) = 1
    /\ NRows(last.out) = 4

\* C6: whatever process_data, apply_cleaning, apply_feature_engineering or
\* apply_filtering does, the DataFrame its caller passed in is afterwards
\* what it was before the call.
InputNotMutated == last.op # "init" => frame = last.before

\* a call that returned a DataFrame other than the one it was given
InputNotMutatedWitness ==
    /\ last.op = "apply_cleaning"
    /\ last.out # last.before
    /\ frame = last.before

\* the columns of df that are not among names, in order
Remaining(df, names) == SelectSeq(df.columns, LAMBDA c : c \notin Names(names))

\* C7: a non-empty columns_to_drop writes one entry, the first of the log,
\* whether or not a listed name exists, and no error; with nothing else in
\* the recommendation the DataFrame returned has the columns that are not
\* listed, in order and cell for cell, and the rows it had.
DropStageExact ==
    (FullRun /\ last.rec.columns_to_drop # <<>>) =>
      /\ last.log[1] =
            LogEntry("Dropped columns", <<>>, "", "", last.rec.columns_to_drop, 0, 0)
      /\ \A i \in 2..Len(last.log) : last.log[i].msg # "Dropped columns"
      /\ Size(last.rec) = Len(last.rec.columns_to_drop) =>
            /\ Len(last.log) = 2
            /\ last.out.columns = Remaining(last.before, last.rec.columns_to_drop)
            /\ last.out.index = last.before.index
            /\ \A c \in Names(last.out.columns) :
                  /\ Column(last.out, c) = Column(last.before, c)
                  /\ DtypeOf(last.out, c) = DtypeOf(last.before, c)

\* a run that drops a column that exists and names one that does not
DropStageWitness ==
    /\ FullRun
    /\ last.rec.columns_to_drop = <<cA, cZ>>
    /\ HasColumn(last.before, cA) /\ ~HasColumn(last.before, cZ)
    /\ ~HasColumn(last.out, cA)
    /\ NCols(last.out) = 3 /\ NRows(last.out) = 4

\* C8: a full run on an empty recommendation returns the DataFrame it was
\* given, and its log is the final line alone.
EmptyRecommendationIdentity ==
    (FullRun /\ last.rec = EmptyRecommendation) =>
      /\ last.out = last.before
      /\ last.log =
            <<LogEntry("Final dataset", <<>>, "", "", <<>>,
                       NRows(last.before), NCols(last.before))>>

\* an empty recommendation run on the four rows
EmptyRecommendationWitness ==
    /\ FullRun
    /\ last.rec = EmptyRecommendation
    /\ NRows(last.out) = 4
    /\ Len(last.log) = 1

\* the cleaning steps, feature specs and criteria of a recommendation in the
\* order a run takes them, each with its stage
Items(rec) ==
    [i \in 1..Len(rec.cleaning_steps) |->
        [stage |-> 2, item |-> rec.cleaning_steps[i], name |-> rec.cleaning_steps[i].column_name]]
    \o [i \in 1..Len(rec.feature_engineering) |->
        [stage |-> 3, item |-> rec.feature_engineering[i],
         name |-> rec.feature_engineering[i].new_column_name]]
    \o [i \in 1..Len(rec.filtering_criteria) |->
        [stage |-> 4, item |-> rec.filtering_criteria[i], name |-> rec.filtering_criteria[i]]]

Body(st, it) ==
    CASE it.stage = 2 -> CleaningBody(st, it.item)
      [] it.stage = 3 -> FeatureBody(st, it.item)
      [] it.stage = 4 -> FilterBody(st, it.item)

Except(r, it) ==
    CASE it.stage = 2 -> CleaningExcept(r, it.item)
      [] it.stage = 3 -> FeatureExcept(r, it.item)
      [] it.stage = 4 -> FilterExcept(r, it.item)

\* the items taken one at a time from st: for each the state before it, the
\* outcome of its try body (r) and the state after its except clause
RECURSIVE Trace(_, _)
TraceNext(st, it, r, after, rest) ==
    <<[before |-> st, item |-> it, r |-> r, after |-> after]>> \o Trace(after, rest)
TraceFrom(st, it, r, rest) == TraceNext(st, it, r, Except(r, it), rest)
Trace(st, items) ==
    IF items = <<>> THEN <<>>
    ELSE TraceFrom(st, Head(items), Body(st, Head(items)), Tail(items))

\* the state in which the first item of the last call was taken
StartOf(resp) ==
    IF resp.op = "process_data"
    THEN Copy(DropStage(ResetLog(Frame(resp.before, resp.log0)), resp.rec.columns_to_drop))
    ELSE Copy(Frame(resp.before, resp.log0))

ErrorLines == {"Error in", "Error creating", "Error applying filter"}

\* C2: a cleaning step, feature spec or criterion that raises is caught: its
\* iteration appends one error entry and leaves the DataFrame as it was, and
\* the steps after it are taken all the same, so that what the call returns
\* is what taking every item in turn gives.
ErrorsCaughtRunContinues ==
    last.op # "init" =>
      \A tr \in {Trace(StartOf(last), Items(last.rec))} :
        /\ \A i \in 1..Len(tr) :
              tr[i].r.raised =>
                /\ tr[i].after.df = tr[i].before.df
                /\ tr[i].after.arg = tr[i].before.arg
                /\ Len(tr[i].after.log) = Len(tr[i].before.log) + 1
                /\ SubSeq(tr[i].after.log, 1, Len(tr[i].before.log)) = tr[i].before.log
                /\ LET e == tr[i].after.log[Len(tr[i].after.log)]
                   IN /\ e.msg \in ErrorLines
                      /\ StageOf(e) = tr[i].item.stage
                      /\ e.name = tr[i].item.name
                      /\ e.err = tr[i].r.err
                      /\ e.err # ""
        /\ tr # <<>> =>
              /\ last.out = tr[Len(tr)].after.df
              /\ last.log = IF FullRun THEN FinalLine(tr[Len(tr)].after).log
                            ELSE tr[Len(tr)].after.log

\* a cleaning call of two steps: the first names a column that does not
\* exist, the second changes the DataFrame
ErrorsCaughtWitness ==
    /\ last.op = "apply_cleaning"
    /\ Len(last.rec.cleaning_steps) = 2
    /\ Len(last.log) = Len(last.log0) + 2
    /\ last.log[Len(last.log) - 1].msg = "Error in"
    /\ last.log[Len(last.log) - 1].err = "KeyError"
    /\ last.log[Len(last.log)].err = ""
    /\ last.out # last.before

\* the entries of the cleaning, feature and filter stages in a log
StageLines(log) == SelectSeq(log, LAMBDA e : StageOf(e) \in {2, 3, 4})

\* C3: every cleaning step, feature spec and criterion of a call appends
\* exactly one log line, so the lines the three stages add are as many as
\* the items of the recommendation.
OneLinePerStep ==
    /\ FullRun =>
          Len(StageLines(last.log)) =
             Len(last.rec.cleaning_steps) + Len(last.rec.feature_engineering)
               + Len(last.rec.filtering_criteria)
    /\ last.op \in {"apply_cleaning", "apply_feature_engineering", "apply_filtering"} =>
          Len(last.log) = Len(last.log0) + Size(last.rec)

\* C9: fill_nulls with method mean or median (mean when no method is given)
\* on a column that is not numeric leaves every cell of the column as it was.
FillMeanOnTextNoOp ==
    ( /\ last.op \in {"process_data", "apply_cleaning"}
      /\ Size(last.rec) = 1
      /\ Len(last.rec.cleaning_steps) = 1
      /\ last.rec.cleaning_steps[1].action = "fill_nulls"
      /\ ~last.rec.cleaning_steps[1].parameters.none
      /\ last.rec.cleaning_steps[1].parameters.method \in {Absent, "mean", "median"}
      /\ HasColumn(last.before, last.rec.cleaning_steps[1].column_name)
      /\ ~is_numeric_dtype(DtypeOf(last.before, last.rec.cleaning_steps[1].column_name)) )
      => Column(last.out, last.rec.cleaning_steps[1].column_name)
           = Column(last.before, last.rec.cleaning_steps[1].column_name)

\* C5: the log a get-log request reports for a session is the log that
\* session's own last apply request returned (none when it had no run),
\* whatever was requested on other sessions in between; and an apply request
\* returns the log of its own run.
SessionLogNotShared ==
    /\ (last.op = "get_processing_log" /\ last.status = 200)
          => last.log = session_log[last.session]
    /\ (last.op = "apply_processing" /\ last.status = 200)
          => last.log = process_data(last.before, <<>>, last.rec).log

-----------------------------------------------------------------------------
(* Properties of chart validation (SpecValidate).                          *)

Validated == validation.done

\* C10: validate counts 1 + the number of y-axis names requested, and when
\* that count is below min_dimensions or above max_dimensions of the chart
\* type the result is incompatible and its reason names the bound and the
\* count, whatever the types of the columns are.
DimensionBounds ==
    Validated =>
      LET n == 1 + Len(validation.y_axis)
          req == chart_requirements[validation.chart_type]
      IN /\ n < req.min_dimensions =>
               /\ ~validation.is_compatible
               /\ validation.reason[1] = Issue("at least", <<>>, req.min_dimensions, n)
         /\ n > req.max_dimensions =>
               /\ ~validation.is_compatible
               /\ validation.reason[1] = Issue("at most", <<>>, req.max_dimensions, n)
         /\ (req.min_dimensions <= n /\ n <= req.max_dimensions) =>
               \A i \in 1..Len(validation.reason) :
                  validation.reason[i].kind \notin {"at least", "at most"}

\* a pie chart of a text column against two numeric columns: the dimension
\* count is its only issue
DimensionBoundsWitness ==
    /\ Validated
    /\ validation.chart_type = PIE
    /\ validation.x_axis = cS
    /\ validation.y_axis = <<cA, cB>>
    /\ ~validation.is_compatible
    /\ Len(validation.reason) = 1
    /\ validation.reason[1].n = 3


\* the rule by which a column profile satisfies one required axis type
MatchesType(type, info) ==
    CASE type = "numeric" -> info.is_numeric
      [] type = "categorical" -> info.is_categorical
      [] type = "temporal" -> info.is_datetime
      [] type = "string" -> ~info.is_numeric
      [] OTHER -> FALSE

\* the entries of a reason that are x-axis issues
XAxisIssues == SelectSeq(validation.reason, LAMBDA i : i.kind = "x-axis")

\* C11: when the profile of the x column is among the supplied profiles, the
\* reason holds an x-axis issue, naming that column, exactly when the profile
\* matches none of the x types the chart type requires (numeric, categorical,
\* temporal = is_datetime, string = not is_numeric); when no profile has the
\* name of the x column, the reason holds no x-axis issue.
XAxisIssueRule ==
    Validated =>
      LET profiles == {i \in 1..Len(validation.columns) :
                          validation.columns[i].name = validation.x_axis}
          req == chart_requirements[validation.chart_type].x_type
      IN /\ Len(XAxisIssues) <= 1
         /\ \A i \in 1..Len(XAxisIssues) : XAxisIssues[i].col = validation.x_axis
         /\ profiles = {} => XAxisIssues = <<>>
         /\ profiles # {} =>
               LET info == validation.columns[CHOOSE i \in profiles :
                                                 \A j \in profiles : i <= j]
               IN (XAxisIssues # <<>>) <=>
                     ~ \E k \in 1..Len(req) : MatchesType(req[k], info)

\* a bar chart of the int64 column a (numeric, not categorical) against the
\* numeric column b: the x-axis issue is the only one
XAxisIssueWitness ==
    /\ Validated
    /\ validation.chart_type = BAR
    /\ validation.x_axis = cA
    /\ validation.y_axis = <<cB>>
    /\ ~validation.is_compatible
    /\ validation.reason = <<Issue("x-axis", cA, 0, 0)>>


\* the issues of the request in the order the checks run
ExpectedIssues ==
    LET req == chart_requirements[validation.chart_type]
    IN dimension_issues(req, num_dimensions(validation.y_axis))
         \o x_issues(req, x_col_info(validation.columns, validation.x_axis), validation.x_axis)
         \o y_issues(req, y_col_infos(validation.columns, validation.y_axis))

\* C12: is_compatible is true exactly when no issue was found; with issues the
\* reason is the issues in the order dimension, x-axis, y-axis with "; "
\* between neighbours, and without issues it is the default "compatible"
\* reason; in both cases suggested_alternatives is the first 3 entries of the
\* row of the chart type in the compatibility matrix, never more than 3.
ResultAssembly ==
    Validated =>
      LET row == compatibility_matrix[validation.chart_type]
          alt == validation.suggested_alternatives
          reason == validation.reason
      IN /\ validation.is_compatible <=> ExpectedIssues = <<>>
         /\ ExpectedIssues = <<>> => reason = <<Issue("compatible", <<>>, 0, 0)>>
         /\ ExpectedIssues # <<>> =>
               /\ Len(reason) = 2 * Len(ExpectedIssues) - 1
               /\ \A i \in 1..Len(reason) :
                     IF i % 2 = 1 THEN reason[i] = ExpectedIssues[(i + 1) \div 2]
                     ELSE reason[i].kind = "; "
         /\ Len(alt) <= 3
         /\ Len(alt) = (IF Len(row) < 3 THEN Len(row) ELSE 3)
         /\ \A i \in 1..Len(alt) : alt[i] = row[i]

\* a bar chart of a against a, b and s: one issue of each kind, and the row
\* of four alternatives cut to three
ResultAssemblyWitness ==
    /\ Validated
    /\ validation.chart_type = BAR
    /\ validation.x_axis = cA
    /\ validation.y_axis = <<cA, cB, cS>>
    /\ ~validation.is_compatible
    /\ Len(validation.reason) = 5
    /\ validation.reason[1].kind = "at most"
    /\ validation.reason[3].kind = "x-axis"
    /\ validation.reason[5] = Issue("y-axis", cS, 0, 0)
    /\ validation.suggested_alternatives = <<HORIZONTAL_BAR, STACKED_BAR, GROUPED_BAR>>


\* C16: a pie or donut preparation that returns gives exactly one record per
\* distinct x_axis value present in the dataset, holding that value and the
\* sum of the first y_axis column over the rows of that value; further
\* y_axis columns are ignored.
PieOneRecordPerValue ==
    (/\ last.op = "prepare_chart_data"
     /\ validation.chart_type \in {PIE, DONUT}
     /\ validation.y_axis # <<>>
     /\ last.ok)
    => LET x == validation.x_axis
           y == validation.y_axis[1]
           xs == Column(last.before, x)
           ys == Column(last.before, y)
           present == Unique(xs)
           Total(v) == Num(RSum(Values(
                           SelectSeq([r \in 1..Len(xs) |-> IF xs[r] = v THEN ys[r] ELSE Null],
                                     LAMBDA c : ~IsNull(c)))))
       IN /\ Len(last.data) = Cardinality(present)
          /\ \A i \in 1..Len(last.data) :
                /\ DOMAIN last.data[i] = {x, y}
                /\ last.data[i][x] \in present
                /\ last.data[i][y] = Total(last.data[i][x])
          /\ \A i, j \in 1..Len(last.data) : last.data[i][x] = last.data[j][x] => i = j


\* C17: for a categorical x column with at most 8 distinct values and a
\* single numeric y column, suggest_optimal_chart returns PIE.
SuggestsPie ==
    (/\ last.op = "suggest_optimal_chart"
     /\ last.ok
     /\ \/ DtypeOf(last.before, validation.x_axis) = "object"
        \/ Cardinality(Unique(Column(last.before, validation.x_axis))) * 10
              < NRows(last.before)
     /\ Cardinality(Unique(Column(last.before, validation.x_axis))) <= 8
     /\ Len(validation.y_axis) = 1
     /\ HasColumn(last.before, validation.y_axis[1])
     /\ is_numeric_dtype(DtypeOf(last.before, validation.y_axis[1])))
    => last.data = PIE


\* C19: get_compatible_chart_types returns the whole row of the chart type in
\* the compatibility matrix, in table order (4 entries for BAR), and the
\* suggested_alternatives of validate for the same chart type are the first
\* 3 entries of that list.
WholeRowReturned ==
    last.op = "get_compatible_chart_types" =>
       /\ last.data = compatibility_matrix[validation.chart_type]
       /\ validation.chart_type = BAR =>
             last.data = <<HORIZONTAL_BAR, STACKED_BAR, GROUPED_BAR, LINE>>
       /\ Validated =>
             /\ Len(validation.suggested_alternatives)
                   = (IF Len(last.data) < 3 THEN Len(last.data) ELSE 3)
             /\ \A i \in 1..Len(validation.suggested_alternatives) :
                   validation.suggested_alternatives[i] = last.data[i]

\* both calls made for BAR: four compatible types, three alternatives
WholeRowWitness ==
    /\ last.op = "get_compatible_chart_types"
    /\ Validated
    /\ validation.chart_type = BAR
    /\ Len(last.data) = 4
    /\ Len(validation.suggested_alternatives) = 3


-----------------------------------------------------------------------------
(* Properties of the chart requests of the service (SpecService).          *)

\* C13: a create_chart or convert_chart request whose x-axis column or one
\* of whose y-axis columns is absent from the dataset it loads fails: it
\* returns no chart data and stores no chart, also when the column was
\* removed by a processing run after the chart was created.
AbsentColumnFails ==
    (/\ last.op \in {"create_chart", "convert_chart"}
     /\ last.before # NoFrame
     /\ \/ ~HasColumn(last.before, validation.x_axis)
        \/ \E i \in 1..Len(validation.y_axis) : ~HasColumn(last.before, validation.y_axis[i]))
    => /\ ~last.ok
       /\ last.data = <<>>
       /\ \A id \in DOMAIN chart_store : chart_store[id].created_at # last.run


-----------------------------------------------------------------------------
(* Properties of the filter criteria, stated over a call of                *)
(* apply_filtering with one criterion (SpecPipeline).                      *)

\* the criterion of such a call, and the text on either side of its operator
OneCriterion == last.op = "apply_filtering" /\ Len(last.rec.filtering_criteria) = 1
TheCriterion == last.rec.filtering_criteria[1]
LeftSide == strip(split(TheCriterion, Operator(TheCriterion))[1])
RightSide == strip(split(TheCriterion, Operator(TheCriterion))[2])

\* the rows of df whose cell in column col satisfies Keep, with their labels
RowsWhere(df, col, Keep(_)) ==
    LET kept == SelectSeq([r \in 1..NRows(df) |-> r], LAMBDA r : Keep(Column(df, col)[r]))
    IN [index |-> [i \in 1..Len(kept) |-> df.index[kept[i]]],
        data |-> [i \in 1..Len(kept) |-> df.data[kept[i]]]]

\* C14: "<col> > <number>" on a numeric column keeps exactly the rows whose
\* value in col is strictly greater than the number, and "<col> < <number>"
\* exactly the rows strictly less; a row equal to the number or null in col
\* is removed, and the kept rows keep every cell and their labels.
StrictComparison ==
    (/\ OneCriterion
     /\ Operator(TheCriterion) \in {<<">">>, <<"<">>}
     /\ ParseFloat(RightSide).ok
     /\ HasColumn(last.before, LeftSide)
     /\ is_numeric_dtype(DtypeOf(last.before, LeftSide)))
    => LET number == ParseFloat(RightSide).val
           Greater(c) == ~IsNull(c) /\ RLt(number, Val(c))
           Less(c) == ~IsNull(c) /\ RLt(Val(c), number)
           expected == IF Operator(TheCriterion) = <<">">>
                       THEN RowsWhere(last.before, LeftSide, Greater)
                       ELSE RowsWhere(last.before, LeftSide, Less)
       IN /\ last.out.index = expected.index
          /\ last.out.data = expected.data
          /\ last.out.columns = last.before.columns
          /\ last.out.dtypes = last.before.dtypes

\* "a > 30" on a = 20, 30, 40, 30 keeps the row of 40 alone
StrictComparisonWitness ==
    /\ OneCriterion
    /\ TheCriterion = <<"a", " ", ">", " ", "3", "0">>
    /\ Column(last.before, cA) = <<I(20), I(30), I(40), I(30)>>
    /\ last.out.index = <<2>>
    /\ Column(last.out, cA) = <<I(40)>>
    /\ Column(last.out, cS) = <<Str(<<"y">>)>>


\* C15: "<col> == <value>" keeps exactly the rows whose cell in col, read as
\* text, equals the value with the whitespace around it and the quotes
\* around it removed (a numeric cell 30 matches the literal 30), and
\* "<col> != <value>" keeps exactly the other rows.
EqualityComparesText ==
    (/\ OneCriterion
     /\ Operator(TheCriterion) \in {<<"=", "=">>, <<"!", "=">>}
     /\ HasColumn(last.before, LeftSide))
    => LET literal == strip_quotes(RightSide)
           dt == DtypeOf(last.before, LeftSide)
           Equal(c) == ~IsNull(c) /\ CellAsStr(c, dt).s = literal
           Differs(c) == ~Equal(c)
           expected == IF Operator(TheCriterion) = <<"=", "=">>
                       THEN RowsWhere(last.before, LeftSide, Equal)
                       ELSE RowsWhere(last.before, LeftSide, Differs)
       IN /\ last.out.index = expected.index
          /\ last.out.data = expected.data


\* C20: a criterion that cannot be parsed (no operator recognised, both '<'
\* and '>' without "==" or "!=", a right-hand side of '>' or '<' that is no
\* number) or that names an unknown column leaves the rows as they are and
\* adds exactly one entry, naming it, to the log.
BadCriterionLogged ==
    (/\ OneCriterion
     /\ \/ Operator(TheCriterion) = <<>>
        \/ Operator(TheCriterion) \in {<<">">>, <<"<">>} /\ ~ParseFloat(RightSide).ok
        \/ Operator(TheCriterion) # <<>> /\ ~HasColumn(last.before, LeftSide))
    => /\ last.out = last.before
       /\ Len(last.log) = Len(last.log0) + 1
       /\ SubSeq(last.log, 1, Len(last.log0)) = last.log0
       /\ last.log[Len(last.log)].name = TheCriterion


-----------------------------------------------------------------------------
(* Properties of the schema analysis, stated over the schema stored at     *)
(* upload (SpecService).                                                   *)

\* the file uploaded for a session and the schema analyze_schema gave for it
Uploaded(session_id) == files[data_store[session_id].original_data_path]
SchemaOf(session_id) == data_store[session_id].schema_info

\* the sum of null_percentage over the columns of a schema
NullPercentageSum(schema) ==
    RSum([k \in 1..Len(schema.columns) |-> schema.columns[k].null_percentage])

\* row_count is the number of rows, and the null_percentage of each column
\* is null_count / row_count x 100 in hundredths, 0 without rows
RowCountAndPercentages(session_id) ==
    LET df == Uploaded(session_id)
        schema == SchemaOf(session_id)
    IN /\ schema.row_count = NRows(df)
       /\ Len(schema.columns) = NCols(df)
       /\ \A k \in 1..NCols(df) :
             LET info == schema.columns[k]
                 nulls == Cardinality({r \in 1..NRows(df) : IsNull(df.data[r][k])})
                 pct == info.null_percentage
             IN /\ info.null_count = nulls
                /\ NRows(df) = 0 => pct = RInt(0)
                /\ NRows(df) > 0 =>
                      /\ (pct.n * 100) % pct.d = 0
                      /\ RLe(Rat(Abs(pct.n * NRows(df) - nulls * 100 * pct.d),
                                 pct.d * NRows(df)), Rat(1, 200))
                /\ RLe(RInt(0), pct) /\ RLe(pct, RInt(100))

\* C18 as the spec states it: row_count and the percentages as above, and
\* the sum of null_percentage over the columns lies in [0, 100].
NullPercentageSumWithin100 ==
    \A session_id \in DOMAIN data_store :
       /\ RowCountAndPercentages(session_id)
       /\ RLe(RInt(0), NullPercentageSum(SchemaOf(session_id)))
       /\ RLe(NullPercentageSum(SchemaOf(session_id)), RInt(100))

\* C18, amended: row_count is the number of rows, the null_percentage of
\* each column is null_count / row_count x 100 rounded to hundredths (0
\* without rows) and lies in [0, 100], and the sum over the columns lies in
\* [0, 100 x column_count].
NullPercentagePerColumn ==
    \A session_id \in DOMAIN data_store :
       /\ RowCountAndPercentages(session_id)
       /\ RLe(RInt(0), NullPercentageSum(SchemaOf(session_id)))
       /\ RLe(NullPercentageSum(SchemaOf(session_id)),
              RInt(100 * SchemaOf(session_id).column_count))

\* the upload of three rows with two of three cells empty in each of two
\* columns: 66.67 for each, 133.34 in all
NullPercentageWitness ==
    \E session_id \in DOMAIN data_store :
       /\ Uploaded(session_id) = Sparse
       /\ SchemaOf(session_id).row_count = 3
       /\ SchemaOf(session_id).columns[1].null_percentage = Rat(6667, 100)
       /\ NullPercentageSum(SchemaOf(session_id)) = Rat(13334, 100)


-----------------------------------------------------------------------------
(* Properties of the y-axis check and of the related-types graph.          *)

\* the entries of a reason that are y-axis issues
YAxisIssues == SelectSeq(validation.reason, LAMBDA i : i.kind = "y-axis")

\* the profiles whose name is among the y-axis names that match none of the
\* types the chart type requires of y, by the rules of the x-axis
MismatchedY ==
    LET req == chart_requirements[validation.chart_type].y_type
    IN SelectSeq(validation.columns,
                 LAMBDA c : /\ In(c.name, validation.y_axis)
                            /\ ~ \E k \in 1..Len(req) : MatchesType(req[k], c))

\* C21: validate checks each y-axis column that has a profile by the rules
\* of the x-axis (numeric, categorical, temporal, string = not is_numeric)
\* against the y types of the chart type and adds exactly one issue per
\* mismatched y column; for HORIZONTAL_BAR a y column that is neither numeric
\* nor categorical is accepted through the string rule.
YAxisIssueRule ==
    Validated =>
      /\ Len(YAxisIssues) = Len(MismatchedY)
      /\ \A i \in 1..Len(YAxisIssues) : YAxisIssues[i].col = MismatchedY[i].name

\* the chart types get_compatible_chart_types returned for the chart type of
\* the request
RelatedReturned == last.op = "get_compatible_chart_types" /\ last.ok

\* the pairs of chart types related in one direction only
OneWay == {<<PIE, BAR>>, <<DONUT, BAR>>}

\* C22: the related-chart-types graph is symmetric: for all chart types A
\* and B, B is in the row of A if and only if A is in the row of B.
RelatedGraphSymmetric ==
    RelatedReturned =>
       \A B \in ChartTypes :
          In(B, last.data) <=> In(validation.chart_type, get_compatible_chart_types(B))

\* C22, as the table stands: B is in the row of A if and only if A is in the
\* row of B, except that PIE and DONUT list BAR and BAR lists neither.
RelatedGraphSymmetricButBar ==
    RelatedReturned =>
       LET A == validation.chart_type
       IN \A B \in ChartTypes :
             /\ <<A, B>> \in OneWay =>
                   In(B, last.data) /\ ~In(A, get_compatible_chart_types(B))
             /\ <<B, A>> \in OneWay =>
                   ~In(B, last.data) /\ In(A, get_compatible_chart_types(B))
             /\ (<<A, B>> \notin OneWay /\ <<B, A>> \notin OneWay) =>
                   (In(B, last.data) <=> In(A, get_compatible_chart_types(B)))

\* the row of PIE returned: it lists BAR, whose row does not list PIE
RelatedGraphWitness ==
    /\ RelatedReturned
    /\ validation.chart_type = PIE
    /\ last.data = <<DONUT, BAR>>
    /\ ~In(PIE, get_compatible_chart_types(BAR))

\* C23: LINE lists BAR as related but BAR does not list LINE.
LineListsBarOnly ==
    RelatedReturned =>
       /\ validation.chart_type = LINE => In(BAR, last.data)
       /\ validation.chart_type = BAR => ~In(LINE, last.data)

\* C23, as the table stands: LINE lists BAR and BAR lists LINE; PIE lists
\* BAR and BAR does not list PIE.
LineAndBarListEachOther ==
    RelatedReturned =>
       /\ validation.chart_type = LINE => In(BAR, last.data)
       /\ validation.chart_type = BAR => In(LINE, last.data) /\ ~In(PIE, last.data)
       /\ validation.chart_type = PIE => In(BAR, last.data)

\* the row of BAR returned: LINE is its last entry
LineAndBarWitness ==
    /\ RelatedReturned
    /\ validation.chart_type = BAR
    /\ Len(last.data) = 4
    /\ last.data[4] = LINE
    /\ In(BAR, get_compatible_chart_types(LINE))

\* C28: the chart type suggest_optimal_chart returns for an x column and a
\* non-empty list of y columns is accepted by validate for the same x
\* column, y columns and the profile of the same dataset.
SuggestionIsCompatible ==
    (/\ last.op = "suggest_optimal_chart"
     /\ last.ok
     /\ validation.y_axis # <<>>
     /\ Validated
     /\ validation.chart_type = last.data)
       => validation.is_compatible

-----------------------------------------------------------------------------
(* Properties of the rows of a pipeline run (SpecPipeline).                *)

\* the position in df of the row labelled label
RowAt(df, label) == CHOOSE r \in 1..NRows(df) : df.index[r] = label

\* the columns a recommendation may write: those its cleaning steps name and
\* those its features create
WrittenColumns(rec) ==
    {rec.cleaning_steps[i].column_name : i \in 1..Len(rec.cleaning_steps)}
    \cup {rec.feature_engineering[i].new_column_name : i \in 1..Len(rec.feature_engineering)}

\* C24: a pipeline run never adds or reorders rows: the rows of the returned
\* dataset are a subsequence of the rows of the input (each carries the
\* cells of its input row in the columns no step writes), so the output has
\* at most as many rows as the input.
RowsAreSubsequence ==
    last.op # "init" =>
       /\ IsSubsequence(last.out.index, last.before.index)
       /\ NRows(last.out) <= NRows(last.before)
       /\ \A r \in 1..NRows(last.out) : \A k \in 1..NCols(last.out) :
             LET c == last.out.columns[k]
             IN (HasColumn(last.before, c) /\ c \notin WrittenColumns(last.rec)) =>
                   last.out.data[r][k]
                      = Column(last.before, c)[RowAt(last.before, last.out.index[r])]

\* a full run in which a cleaning step and a criterion both removed rows, the
\* first row of the input among them
RowsAreSubsequenceWitness ==
    /\ last.op = "process_data"
    /\ last.rec.cleaning_steps # <<>>
    /\ last.rec.filtering_criteria # <<>>
    /\ NRows(last.before) = 4
    /\ NRows(last.out) = 1
    /\ last.out.index # <<last.before.index[1]>>
    /\ \E i \in 1..Len(last.log) : last.log[i].msg = "Applied filter"

-----------------------------------------------------------------------------
(* Properties of the stored files and charts (SpecStorage).                *)

\* the request just answered is a successful /apply or /custom of session s
Processed(s) ==
    /\ last'.op \in {"apply_processing", "apply_custom_processing"}
    /\ last'.status = 200
    /\ last'.session = s

\* what the request just answered computes from the dataset df
ResultOn(df) ==
    IF last'.op = "apply_processing" THEN process_data(df, <<>>, last'.rec).df
    ELSE custom_operations(df, last'.operations).df

\* one step, seen from a session s that exists before it
ProcessingStep(s) ==
    LET original == data_store[s].original_data_path
        processed == data_store[s].processed_data_path
    IN /\ HasSession(data_store', s) =>
             /\ data_store'[s].original_data_path = original
             /\ Exists(files', original)
             /\ files'[original] = files[original]
       /\ Processed(s) =>
             /\ HasSession(data_store', s)
             /\ data_store'[s].processed_data_path # NoPath
             /\ files'[data_store'[s].processed_data_path] = Written(ResultOn(files[original]))
       /\ (~Processed(s) /\ HasSession(data_store', s)) =>
             /\ data_store'[s].processed_data_path \in {processed, NoPath}
             /\ data_store'[s].processed_data_path # NoPath =>
                   files'[processed] = files[processed]

\* C25: processing is never cumulative: every successful apply or custom
\* request stores the result of its own operations run on the original
\* dataset of the session, no other request changes the stored processed
\* dataset of the session (a reset only detaches it), and no request changes
\* the original dataset.
ProcessingNotCumulative == [][\A s \in DOMAIN data_store : ProcessingStep(s)]_vars

\* a custom request answered after an apply request that dropped column a:
\* the stored processed dataset has column a again and differs from the
\* original
ProcessingNotCumulativeWitness ==
    /\ last.op = "apply_custom_processing"
    /\ last.status = 200
    /\ HasSession(data_store, last.session)
    /\ session_log[last.session] # <<>>
    /\ session_log[last.session][1].msg = "Dropped columns"
    /\ LET meta == data_store[last.session]
       IN /\ HasColumn(files[meta.processed_data_path], cA)
          /\ files[meta.processed_data_path] # files[meta.original_data_path]
          /\ files[meta.original_data_path] = Sales

\* C26: every chart in the chart store belongs to a session that exists.
ChartsBelongToSessions ==
    \A chart_id \in DOMAIN chart_store :
       HasSession(data_store, chart_store[chart_id].session_id)

\* a session deleted right after a chart was created for it: upload, create,
\* delete
ChartsDeletedWitness ==
    /\ last.op = "delete_session"
    /\ last.status = 200
    /\ last.run = 3
    /\ validation.done
    /\ validation.is_compatible
    /\ chart_store = <<>>
    /\ data_store = <<>>

\* C27: after delete_session succeeds for a session, no data file written
\* for that session remains in storage, neither the uploaded original nor a
\* processed file.
NoFileAfterDelete ==
    (last.op = "delete_session" /\ last.status = 200) =>
       \A path \in DOMAIN files : path.session_id # last.session

-----------------------------------------------------------------------------
(* Properties of the accounts and sessions (SpecAuth)                      *)

\* the account is locked at the present time
Locked(user) == user.locked_until # 0 /\ auth.now < user.locked_until

\* the login requests for the account of an address
LoginsFor(email) ==
    {r \in [email : EmailInputs, password : {Password1, Password2}] :
        _validate_email(r.email).ok /\ _validate_email(r.email).email = email}

\* what a login would do to the account in the present state
LoginAnswers(email, r) ==
    \E o \in {login(auth, r.email, r.password, FALSE)} :
       \E user \in {auth.users[email]}, after \in {o.auth.users[email]} :
          IF Locked(user)
          THEN o.status = 423 /\ o.auth = auth
          ELSE IF user.password_hash = _hash_password(r.password)
          THEN /\ o.status \in {200, 403}
               /\ o.status = 200 => after.failed_attempts = 0
               /\ o.status = 403 => o.auth = auth
          ELSE IF user.failed_attempts = 4
          THEN /\ o.status = 423
               /\ after.locked_until = auth.now + 15 * 60
               /\ after.failed_attempts = 0
               /\ o.auth.sessions = auth.sessions
          ELSE /\ o.status = 401
               /\ after.failed_attempts = user.failed_attempts + 1
               /\ after.locked_until = user.locked_until
               /\ o.auth.sessions = auth.sessions

LockoutInEveryState ==
    \A email \in DOMAIN auth.users :
       /\ auth.users[email].failed_attempts \in 0..4
       /\ auth.users[email].locked_until <= auth.now + 15 * 60
       /\ \A r \in LoginsFor(email) : LoginAnswers(email, r)

\* a step leaves a lock that is in force as it is, and changes the count of
\* wrong passwords only by a login
LockoutInEveryStep ==
    \A email \in DOMAIN auth.users :
       /\ email \in DOMAIN auth'.users
       /\ Locked(auth.users[email]) =>
             /\ auth'.users[email].locked_until = auth.users[email].locked_until
             /\ last'.op = "login" => last'.status \in {400, 423} /\ auth'.sessions = auth.sessions
       /\ auth'.users[email].failed_attempts # auth.users[email].failed_attempts =>
             last'.op = "login"

\* C29: the fifth wrong password in a row, with no successful login between,
\* locks the account for 15 minutes; until the lock expires every login for
\* the account is answered 423 and creates no session, the correct password
\* included; and failed_attempts of every account stays in 0..4.
LoginLockout == []LockoutInEveryState /\ [][LockoutInEveryStep]_vars

\* a login with the correct password was answered 423, a minute into the lock
LoginLockoutWitness ==
    /\ last.op = "login"
    /\ last.status = 423
    /\ auth.now > 0
    /\ \E email \in DOMAIN auth.users :
          /\ _validate_email(last.email).email = email
          /\ Locked(auth.users[email])
          /\ auth.users[email].password_hash = _hash_password(last.password)
          /\ auth.users[email].failed_attempts = 0

\* a login makes a session only when it is answered 200, for an account
\* that exists, is not locked, is verified and has the password given
SessionOnlyByLogin(r) ==
    \E v \in {_validate_email(r.email)}, o \in {login(auth, r.email, r.password, FALSE)} :
       o.auth.sessions # auth.sessions =>
          /\ o.status = 200
          /\ v.ok
          /\ v.email \in DOMAIN auth.users
          /\ ~Locked(auth.users[v.email])
          /\ auth.users[v.email].is_verified
          /\ auth.users[v.email].password_hash = _hash_password(r.password)
          /\ DOMAIN o.auth.sessions = DOMAIN auth.sessions \cup {o.token}
          /\ o.auth.sessions[o.token].email = v.email

\* C30: every session token in the session table belongs to an account whose
\* email is verified: a login creates a session only for an existing,
\* unlocked, verified account with the matching password; and a verification
\* token is usable at most once (after a successful verify-email the same
\* token, like every token for that account, is rejected).
SessionsOfVerifiedAccounts ==
    /\ \A t \in DOMAIN auth.sessions :
          /\ auth.sessions[t].email \in DOMAIN auth.users
          /\ auth.users[auth.sessions[t].email].is_verified
    /\ \A r \in [email : EmailInputs, password : {Password1, Password2}] :
          SessionOnlyByLogin(r)
    /\ \A email \in DOMAIN auth.users :
          auth.users[email].is_verified =>
             /\ email \notin DOMAIN auth.verification_tokens
             /\ \A e \in EmailInputs, t \in Presentable :
                   _validate_email(e).email = email => verify_email(auth, e, t).status = 400
    /\ last.op = "verify_email" /\ last.status = 200 =>
          verify_email(auth, last.email, last.token).status = 400

\* the account was verified with the token of its signup and has logged in,
\* and a verify-email with that token was then answered 400
SessionsOfVerifiedAccountsWitness ==
    /\ last.op = "verify_email"
    /\ last.status = 400
    /\ last.token = 1
    /\ auth.issued = 2
    /\ DOMAIN auth.sessions = {2}
    /\ auth.users[auth.sessions[2].email].is_verified
    /\ _validate_email(last.email).email = auth.sessions[2].email
====
